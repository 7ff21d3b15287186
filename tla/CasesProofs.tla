---------------------------- MODULE CasesProofs ----------------------------
(* Theorems about the life of a case: its archive, its stages, its employer, *)
(* what the staff is told of it, what is read off its papers and the ZUS     *)
(* reports it owes.  Each part is proved of its own specification, and what  *)
(* the model is checked as (MCCases) behaves as all of them.                 *)
EXTENDS MCCases, FiniteSetTheorems, WellFoundedInduction, TLAPS

-----------------------------------------------------------------------------
LEMMA LeastNatural ==
  ASSUME NEW S \in SUBSET Nat, S # {}
  PROVE  \E m \in S : \A k \in S : m <= k
<1>1. PICK m \in S : \A k \in S : <<k, m>> \notin OpToRel(<, Nat)
  BY WFMin, NatLessThanWellFounded
<1>2. \A k \in S : ~(k < m)
  BY <1>1 DEF OpToRel
<1>3. \A k \in S : k \in Nat /\ m \in Nat
  OBVIOUS
<1> QED  BY <1>2, <1>3

-----------------------------------------------------------------------------
(* Archiving and restoring (Archive). *)

(* What a request that is under way may count on. *)
Sound(x) ==
    /\ x.op \in {"archive_client", "restore_client"} => x.holdsClient
    /\ x.op \in {"archive_client", "archive_case"} =>
          /\ \A c \in x.done : ~cases[c].archived /\ cases[c].last < MaxArchives
          /\ \A t \in x.suspends : tasks[t].case \in x.done /\ tasks[t].by = 0
    /\ x.op = "archive_client" => client.last < MaxArchives
    /\ x.op = "restore_client" => x.done \subseteq CasesOfBatch /\ CasesOfBatch \subseteq x.done \union x.todo
    /\ x.op = "auto_task" => \E c \in Cases : x.done = {c}

TxnsAreSound == \A w \in Clerks : Sound(txn[w])

(* A row is locked by one request at a time. *)
LocksAreExclusive ==
    \A v \in Clerks, w \in Clerks :
        v # w => /\ ~(txn[v].holdsClient /\ txn[w].holdsClient)
                 /\ \A c \in Cases : ~(HoldsCase(v, c) /\ HoldsCase(w, c))

TasksHaveCases == \A t \in Tasks : tasks[t].by # 0 => tasks[t].case \in Cases

ArchiveInv == ArchiveTypeOK /\ FlagsMatchBatches /\ TasksHaveCases /\ LocksAreExclusive /\ TxnsAreSound

LEMMA NoTxnType == NoTxn \in Txn /\ NoTxn.op = "idle" /\ NoTxn.done = {} /\ NoTxn.suspends = {} /\ NoTxn.holdsClient = FALSE
                   /\ NoTxn.todo = {}
  BY DEF NoTxn, Txn, Op

LEMMA ArchiveInitInv == ArchiveInit => ArchiveInv
<1> SUFFICES ASSUME ArchiveInit PROVE ArchiveInv
  OBVIOUS
<1> USE ArchiveAssumption
<1>1. 0 \in Batch
  BY DEF Batch
<1>2. client \in Client /\ late \in SUBSET Cases /\ txn \in [Clerks -> Txn]
  BY <1>1, NoTxnType DEF ArchiveInit, Client
<1>3. cases \in [Cases -> Case] /\ \A c \in Cases : ~cases[c].archived /\ cases[c].open = 0
  BY <1>1 DEF ArchiveInit, Case
<1>4. tasks \in [Tasks -> Task] /\ \A t \in Tasks : tasks[t].by = 0
  BY <1>1 DEF ArchiveInit, Task
<1>5. \A w \in Clerks : txn[w] = NoTxn
  BY DEF ArchiveInit
<1>6. client.archived = FALSE /\ client.open = 0
  BY DEF ArchiveInit
<1>7. TxnsAreSound /\ LocksAreExclusive
  BY <1>5, NoTxnType DEF TxnsAreSound, Sound, LocksAreExclusive, HoldsCase
<1> QED  BY <1>2, <1>3, <1>4, <1>6, <1>7 DEF ArchiveInv, ArchiveTypeOK, FlagsMatchBatches, TasksHaveCases

LEMMA FirstIsIn ==
  ASSUME NEW todo \in SUBSET Cases, todo # {}
  PROVE  First(todo) \in todo
<1>1. \E c \in todo : \A d \in todo : c <= d
  BY LeastNatural DEF Cases
<1> QED  BY <1>1 DEF First

(* A request begins, goes on or is rolled back: the rows stay as they are.   *)
LEMMA RequestGoesOn ==
  ASSUME ArchiveInv, NEW w \in Clerks, NEW x \in Txn, Sound(x),
         txn' = [txn EXCEPT ![w] = x], UNCHANGED <<client, cases, tasks, late>>,
         x.holdsClient => ClientFree(w),
         x.op \notin {"auto_task", "create_case"} => \A c \in x.done : CaseFree(w, c)
  PROVE  ArchiveInv'
<1> USE DEF ArchiveInv
<1>1. /\ txn' \in [Clerks -> Txn] /\ txn'[w] = x
      /\ \A v \in Clerks \ {w} : txn'[v] = txn[v]
  BY DEF ArchiveTypeOK
<1>2. ArchiveTypeOK' /\ FlagsMatchBatches' /\ TasksHaveCases'
  BY <1>1 DEF ArchiveTypeOK, FlagsMatchBatches, TasksHaveCases, ActiveCases
<1>3. LocksAreExclusive'
  BY <1>1 DEF LocksAreExclusive, HoldsCase, ClientFree, CaseFree
<1>4. TxnsAreSound'
  BY <1>1 DEF TxnsAreSound, Sound, CasesOfBatch
<1> QED  BY <1>2, <1>3, <1>4

LEMMA RollsBack ==
  ASSUME ArchiveInv, NEW w \in Clerks, txn' = [txn EXCEPT ![w] = NoTxn], UNCHANGED <<client, cases, tasks, late>>
  PROVE  ArchiveInv'
<1>1. Sound(NoTxn)
  BY NoTxnType DEF Sound
<1> QED  BY <1>1, NoTxnType, RequestGoesOn

(* A request ends, having changed rows that nobody else has locked.          *)
LEMMA RequestEnds ==
  ASSUME ArchiveInv, NEW w \in Clerks, txn' = [txn EXCEPT ![w] = NoTxn],
         client' \in Client, cases' \in [Cases -> Case], tasks' \in [Tasks -> Task], late' \in SUBSET Cases,
         FlagsMatchBatches', TasksHaveCases',
         \A v \in Clerks \ {w}, c \in Cases :
            HoldsCase(v, c) => cases'[c].archived = cases[c].archived /\ cases'[c].last = cases[c].last,
         \A v \in Clerks \ {w}, t \in Tasks :
            tasks[t].case \in Cases /\ HoldsCase(v, tasks[t].case) /\ tasks[t].by = 0
               => tasks'[t].case = tasks[t].case /\ tasks'[t].by = 0,
         \A v \in Clerks \ {w} : txn[v].holdsClient => client' = client /\ CasesOfBatch' = CasesOfBatch
  PROVE  ArchiveInv'
<1> USE DEF ArchiveInv
<1>1. /\ txn' \in [Clerks -> Txn] /\ txn'[w] = NoTxn
      /\ \A v \in Clerks \ {w} : txn'[v] = txn[v]
  BY NoTxnType DEF ArchiveTypeOK
<1>2. ArchiveTypeOK'
  BY <1>1 DEF ArchiveTypeOK
<1>3. LocksAreExclusive'
  BY <1>1, NoTxnType DEF LocksAreExclusive, HoldsCase
<1>4. TxnsAreSound'
  <2> SUFFICES ASSUME NEW v \in Clerks PROVE Sound(txn[v])'
    BY DEF TxnsAreSound
  <2>1. CASE v = w
    BY <1>1, <2>1, NoTxnType DEF Sound
  <2>2. CASE v # w
    <3>1. txn'[v] = txn[v] /\ txn[v] \in Txn /\ Sound(txn[v])
      BY <1>1, <2>2 DEF TxnsAreSound, ArchiveTypeOK
    <3>2. txn[v].op \in {"archive_client", "archive_case"} => \A c \in txn[v].done : HoldsCase(v, c) /\ c \in Cases
      BY <3>1 DEF HoldsCase, Txn
    <3>3. txn[v].suspends \subseteq Tasks
      BY <3>1 DEF Txn
    <3> QED  BY <2>2, <3>1, <3>2, <3>3 DEF Sound
  <2> QED  BY <2>1, <2>2
<1> QED  BY <1>2, <1>3, <1>4

-----------------------------------------------------------------------------
(* What the commits make of the rows. *)

LEMMA ArchivedRows ==
  ASSUME ArchiveTypeOK, NEW done \in SUBSET Cases, NEW batch \in Batch,
         \A c \in done : cases[c].last < MaxArchives
  PROVE  /\ Archived(done, batch) \in [Cases -> Case]
         /\ \A c \in done : /\ Archived(done, batch)[c].archived = TRUE
                            /\ Archived(done, batch)[c].open = cases[c].last + 1
                            /\ Archived(done, batch)[c].open # 0
                            /\ Archived(done, batch)[c].exists = cases[c].exists
         /\ \A c \in Cases \ done : Archived(done, batch)[c] = cases[c]
<1> SUFFICES ASSUME NEW c \in done
             PROVE  LET n == cases[c].last + 1
                        r == [cases[c] EXCEPT !.archived = TRUE, !.open = n, !.last = n, !.by = batch]
                    IN  r \in Case /\ r.archived = TRUE /\ r.open = n /\ n # 0 /\ r.exists = cases[c].exists
  BY DEF Archived, ArchiveTypeOK
<1> DEFINE n == cases[c].last + 1
<1>1. n \in Batch /\ n # 0 /\ cases[c] \in Case
  BY ArchiveAssumption DEF ArchiveTypeOK, Case, Batch
<1> HIDE DEF n
<1>2. LET r == [cases[c] EXCEPT !.archived = TRUE, !.open = n, !.last = n, !.by = batch]
      IN  r \in Case /\ r.archived = TRUE /\ r.open = n /\ r.exists = cases[c].exists
  BY <1>1 DEF Case
<1> QED  BY <1>1, <1>2 DEF n

LEMMA SuspendedTasks ==
  ASSUME ArchiveTypeOK, NEW suspends \in SUBSET Tasks,
         \A t \in suspends : tasks[t].case \in Cases /\ cases[tasks[t].case].last < MaxArchives
  PROVE  /\ Suspended(suspends) \in [Tasks -> Task]
         /\ \A t \in suspends : /\ Suspended(suspends)[t].by = cases[tasks[t].case].last + 1
                                /\ Suspended(suspends)[t].case = tasks[t].case
         /\ \A t \in Tasks \ suspends : Suspended(suspends)[t] = tasks[t]
<1> SUFFICES ASSUME NEW t \in suspends
             PROVE  LET n == cases[tasks[t].case].last + 1
                    IN  [tasks[t] EXCEPT !.by = n] \in Task /\ [tasks[t] EXCEPT !.by = n].by = n
                        /\ [tasks[t] EXCEPT !.by = n].case = tasks[t].case
  BY DEF Suspended, ArchiveTypeOK
<1> DEFINE n == cases[tasks[t].case].last + 1
<1>1. n \in Batch /\ tasks[t] \in Task
  BY ArchiveAssumption DEF ArchiveTypeOK, Case, Batch
<1> HIDE DEF n
<1>2. [tasks[t] EXCEPT !.by = n] \in Task /\ [tasks[t] EXCEPT !.by = n].by = n
      /\ [tasks[t] EXCEPT !.by = n].case = tasks[t].case
  BY <1>1 DEF Task
<1> QED  BY <1>2 DEF n

LEMMA RestoredRows ==
  ASSUME ArchiveTypeOK, NEW done \in SUBSET Cases
  PROVE  /\ Restored(done) \in [Cases -> Case]
         /\ \A c \in done : Restored(done)[c].archived = FALSE /\ Restored(done)[c].open = 0
         /\ \A c \in Cases \ done : Restored(done)[c] = cases[c]
<1>1. 0 \in Batch
  BY ArchiveAssumption DEF Batch
<1>2. ASSUME NEW c \in done
      PROVE  LET r == [cases[c] EXCEPT !.archived = FALSE, !.open = 0, !.by = 0]
             IN  r \in Case /\ r.archived = FALSE /\ r.open = 0
  BY <1>1 DEF ArchiveTypeOK, Case
<1> QED  BY <1>2 DEF Restored, ArchiveTypeOK

LEMMA ResumedTasks ==
  ASSUME ArchiveTypeOK, NEW done \in SUBSET Cases
  PROVE  /\ Resumed(done) \in [Tasks -> Task]
         /\ \A t \in Tasks : /\ Resumed(done)[t].case = tasks[t].case
                             /\ Resumed(done)[t].by =
                                  IF tasks[t].case \in done /\ tasks[t].by # 0
                                       /\ tasks[t].by = cases[tasks[t].case].open
                                  THEN 0 ELSE tasks[t].by
  BY ArchiveAssumption DEF Resumed, ArchiveTypeOK, Task, Batch

(* The batches fit after a commit that archives what it has locked ...       *)
LEMMA ArchivingFits ==
  ASSUME ArchiveInv, NEW w \in Clerks, txn[w].op \in {"archive_client", "archive_case"}, NEW batch \in Batch,
         cases' = Archived(txn[w].done, batch), tasks' = Suspended(txn[w].suspends)
  PROVE  /\ cases' \in [Cases -> Case] /\ tasks' \in [Tasks -> Task] /\ TasksHaveCases'
         /\ (\A c \in Cases : cases[c].archived <=> cases[c].open # 0)'
         /\ (\A t \in Tasks : tasks[t].by # 0 => tasks[t].by = cases[tasks[t].case].open)'
         /\ ActiveCases' = ActiveCases \ txn[w].done
         /\ \A v \in Clerks \ {w}, c \in Cases :
               HoldsCase(v, c) => cases'[c].archived = cases[c].archived /\ cases'[c].last = cases[c].last
         /\ \A v \in Clerks \ {w}, t \in Tasks :
               tasks[t].case \in Cases /\ HoldsCase(v, tasks[t].case) /\ tasks[t].by = 0
                  => tasks'[t].case = tasks[t].case /\ tasks'[t].by = 0
<1> USE DEF ArchiveInv
<1> DEFINE done == txn[w].done
           suspends == txn[w].suspends
<1>1. /\ txn[w] \in Txn /\ done \in SUBSET Cases /\ suspends \in SUBSET Tasks
      /\ \A c \in done : ~cases[c].archived /\ cases[c].last < MaxArchives /\ cases[c].open = 0 /\ HoldsCase(w, c)
      /\ \A t \in suspends : tasks[t].case \in done /\ tasks[t].by = 0
  BY DEF ArchiveTypeOK, Txn, TxnsAreSound, Sound, FlagsMatchBatches, HoldsCase
<1>2. /\ cases' \in [Cases -> Case]
      /\ \A c \in done : /\ cases'[c].archived = TRUE /\ cases'[c].open = cases[c].last + 1
                         /\ cases'[c].open # 0 /\ cases'[c].exists = cases[c].exists
      /\ \A c \in Cases \ done : cases'[c] = cases[c]
  <2>1. done \in SUBSET Cases /\ \A c \in done : cases[c].last < MaxArchives
    BY <1>1
  <2>2. cases' = Archived(done, batch)
    OBVIOUS
  <2> HIDE DEF done
  <2>3. /\ Archived(done, batch) \in [Cases -> Case]
        /\ \A c \in done : /\ Archived(done, batch)[c].archived = TRUE
                           /\ Archived(done, batch)[c].open = cases[c].last + 1
                           /\ Archived(done, batch)[c].open # 0
                           /\ Archived(done, batch)[c].exists = cases[c].exists
        /\ \A c \in Cases \ done : Archived(done, batch)[c] = cases[c]
    BY ONLY <2>1, ArchivedRows, ArchiveTypeOK, batch \in Batch
  <2> QED  BY <2>2, <2>3
<1>3. /\ tasks' \in [Tasks -> Task]
      /\ \A t \in suspends : tasks'[t].by = cases[tasks[t].case].last + 1 /\ tasks'[t].case = tasks[t].case
      /\ \A t \in Tasks \ suspends : tasks'[t] = tasks[t]
  <2>1. \A t \in suspends : tasks[t].case \in Cases /\ cases[tasks[t].case].last < MaxArchives
    BY <1>1
  <2> QED  BY <1>1, <2>1, SuspendedTasks
<1> HIDE DEF done, suspends
<1>4. TasksHaveCases'
  BY <1>1, <1>3 DEF TasksHaveCases
<1>5. \A c \in Cases : cases'[c].archived <=> cases'[c].open # 0
  BY <1>2 DEF FlagsMatchBatches
<1>6. \A t \in Tasks : tasks'[t].by # 0 => tasks'[t].by = cases'[tasks'[t].case].open
  <2> SUFFICES ASSUME NEW t \in Tasks, tasks'[t].by # 0
               PROVE  tasks'[t].by = cases'[tasks'[t].case].open
    OBVIOUS
  <2>1. CASE t \in suspends
    BY <1>1, <1>2, <1>3, <2>1
  <2>2. CASE t \notin suspends
    <3>1. tasks'[t] = tasks[t] /\ tasks[t].case \in Cases /\ tasks[t].by = cases[tasks[t].case].open
      BY <1>3, <2>2 DEF TasksHaveCases, FlagsMatchBatches
    <3>2. tasks[t].case \notin done
      BY <1>1, <3>1
    <3> QED  BY <1>2, <3>1, <3>2
  <2> QED  BY <2>1, <2>2
<1>7. ActiveCases' = ActiveCases \ done
  BY <1>2 DEF ActiveCases
<1>8. \A v \in Clerks \ {w}, c \in Cases : HoldsCase(v, c) => c \notin done
  BY <1>1 DEF LocksAreExclusive
<1>9. ASSUME NEW v \in Clerks \ {w}, NEW t \in Tasks, tasks[t].case \in Cases, HoldsCase(v, tasks[t].case)
      PROVE  tasks'[t] = tasks[t]
  BY <1>1, <1>3, <1>8, <1>9
<1> QED  BY <1>2, <1>3, <1>4, <1>5, <1>6, <1>7, <1>8, <1>9 DEF done

(* ... and after one that restores. *)
GivenBack(done) ==
    /\ cases' \in [Cases -> Case] /\ tasks' \in [Tasks -> Task]
    /\ \A t \in Tasks : tasks'[t].by # 0 => tasks'[t].case \in Cases /\ tasks'[t].by = cases'[tasks'[t].case].open
    /\ \A c \in Cases : cases'[c].archived <=> cases'[c].open # 0
    /\ \A c \in Cases \ done : cases'[c] = cases[c]
    /\ \A c \in done : cases'[c].archived = FALSE
    /\ ActiveCases' \subseteq ActiveCases \union done
    /\ \A t \in Tasks : /\ tasks'[t].case = tasks[t].case
                        /\ tasks[t].by # 0 => (tasks'[t].by = 0 <=> tasks[t].case \in done)
                        /\ tasks[t].by = 0 => tasks'[t].by = 0

LEMMA RestoringFits ==
  ASSUME ArchiveInv, NEW w \in Clerks, txn[w].op \in {"restore_client", "restore_case"},
         cases' = Restored(txn[w].done), tasks' = Resumed(txn[w].done)
  PROVE  /\ GivenBack(txn[w].done)
         /\ \A v \in Clerks \ {w}, c \in Cases : HoldsCase(v, c) => c \notin txn[w].done
<1> USE DEF ArchiveInv
<1> DEFINE done == txn[w].done
<1>1. done \in SUBSET Cases /\ \A c \in done : HoldsCase(w, c)
  BY DEF ArchiveTypeOK, Txn, HoldsCase
<1>2. cases' = Restored(done) /\ tasks' = Resumed(done)
  OBVIOUS
<1> HIDE DEF done
<1>3. /\ cases' \in [Cases -> Case]
      /\ \A c \in done : cases'[c].archived = FALSE /\ cases'[c].open = 0
      /\ \A c \in Cases \ done : cases'[c] = cases[c]
  <2>1. ArchiveTypeOK
    OBVIOUS
  <2> QED  BY ONLY <1>1, <1>2, <2>1, RestoredRows
<1>4. /\ tasks' \in [Tasks -> Task]
      /\ \A t \in Tasks : /\ tasks'[t].case = tasks[t].case
                          /\ tasks'[t].by = IF tasks[t].case \in done /\ tasks[t].by # 0
                                                /\ tasks[t].by = cases[tasks[t].case].open
                                            THEN 0 ELSE tasks[t].by
  <2>1. ArchiveTypeOK
    OBVIOUS
  <2> QED  BY ONLY <1>1, <1>2, <2>1, ResumedTasks
<1>5. \A t \in Tasks : tasks[t].by # 0 => (tasks'[t].by = 0 <=> tasks[t].case \in done)
  BY <1>4 DEF FlagsMatchBatches
<1>6. \A t \in Tasks : tasks'[t].by # 0 => tasks'[t].by = tasks[t].by /\ tasks[t].case \in Cases \ done
  BY <1>4, <1>5 DEF TasksHaveCases
<1>7. \A t \in Tasks : tasks'[t].by # 0 => tasks'[t].by = cases'[tasks'[t].case].open
  BY <1>3, <1>4, <1>6 DEF FlagsMatchBatches
<1>8. \A c \in Cases : cases'[c].archived <=> cases'[c].open # 0
  BY <1>3 DEF FlagsMatchBatches
<1>9. ActiveCases' \subseteq ActiveCases \union done
  BY <1>3 DEF ActiveCases
<1>10. \A v \in Clerks \ {w}, c \in Cases : HoldsCase(v, c) => c \notin done
  BY <1>1 DEF LocksAreExclusive
<1>11. GivenBack(done)
  BY <1>3, <1>4, <1>5, <1>6, <1>7, <1>8, <1>9 DEF GivenBack
<1> QED  BY <1>10, <1>11 DEF done

-----------------------------------------------------------------------------
(* The requests, step by step. *)

LEMMA BeginKeeps ==
  ASSUME ArchiveInv, NEW w \in Clerks,
         \/ ArchiveClientBegin(w) \/ RestoreClientBegin(w) \/ EditClientRead(w)
         \/ \E c \in Cases : \/ ArchiveCaseBegin(w, c) \/ RestoreCaseBegin(w, c)
                             \/ CreateCaseBegin(w, c) \/ AutoTaskBegin(w, c)
  PROVE  ArchiveInv'
<1>1. CASE ArchiveClientBegin(w)
  <2> DEFINE x == [NoTxn EXCEPT !.op = "archive_client", !.holdsClient = TRUE, !.todo = ActiveCases]
  <2>1. x \in Txn /\ x.op = "archive_client" /\ x.holdsClient /\ x.done = {} /\ x.suspends = {}
    BY NoTxnType DEF Txn, Op, ActiveCases
  <2>2. client.last < MaxArchives /\ ClientFree(w) /\ txn' = [txn EXCEPT ![w] = x]
        /\ UNCHANGED <<client, cases, tasks, late>>
    BY <1>1 DEF ArchiveClientBegin
  <2> HIDE DEF x
  <2>3. Sound(x)
    BY <2>1, <2>2 DEF Sound
  <2> QED  BY <2>1, <2>2, <2>3, RequestGoesOn
<1>2. CASE RestoreClientBegin(w)
  <2> DEFINE x == [NoTxn EXCEPT !.op = "restore_client", !.holdsClient = TRUE, !.todo = CasesOfBatch]
  <2>1. x \in Txn /\ x.op = "restore_client" /\ x.holdsClient /\ x.done = {} /\ x.todo = CasesOfBatch
    BY NoTxnType DEF Txn, Op, CasesOfBatch
  <2>2. ClientFree(w) /\ txn' = [txn EXCEPT ![w] = x] /\ UNCHANGED <<client, cases, tasks, late>>
    BY <1>2 DEF RestoreClientBegin
  <2> HIDE DEF x
  <2>3. Sound(x)
    BY <2>1 DEF Sound
  <2> QED  BY <2>1, <2>2, <2>3, RequestGoesOn
<1>3. CASE EditClientRead(w)
  <2> DEFINE x == [NoTxn EXCEPT !.op = "edit_client"]
  <2>1. x \in Txn /\ x.op = "edit_client" /\ ~x.holdsClient /\ x.done = {}
    BY NoTxnType DEF Txn, Op
  <2>2. txn' = [txn EXCEPT ![w] = x] /\ UNCHANGED <<client, cases, tasks, late>>
    BY <1>3 DEF EditClientRead
  <2> HIDE DEF x
  <2>3. Sound(x)
    BY <2>1 DEF Sound
  <2> QED  BY <2>1, <2>2, <2>3, RequestGoesOn
<1>4. ASSUME NEW c \in Cases, ArchiveCaseBegin(w, c) PROVE ArchiveInv'
  <2> DEFINE x == [NoTxn EXCEPT !.op = "archive_case", !.done = {c}, !.suspends = Suspendable(c)]
  <2>1. x \in Txn /\ x.op = "archive_case" /\ ~x.holdsClient /\ x.done = {c} /\ x.suspends = Suspendable(c)
    BY NoTxnType DEF Txn, Op, Suspendable
  <2>2. /\ txn' = [txn EXCEPT ![w] = x] /\ UNCHANGED <<client, cases, tasks, late>> /\ CaseFree(w, c)
        /\ ~cases[c].archived /\ cases[c].last < MaxArchives
    BY <1>4 DEF ArchiveCaseBegin, ActiveCases
  <2> HIDE DEF x
  <2>3. Sound(x)
    BY <2>1, <2>2 DEF Sound, Suspendable
  <2> QED  BY <2>1, <2>2, <2>3, RequestGoesOn
<1>5. ASSUME NEW c \in Cases, RestoreCaseBegin(w, c) PROVE ArchiveInv'
  <2> DEFINE x == [NoTxn EXCEPT !.op = "restore_case", !.done = {c}]
  <2>1. x \in Txn /\ x.op = "restore_case" /\ ~x.holdsClient /\ x.done = {c}
    BY NoTxnType DEF Txn, Op
  <2>2. txn' = [txn EXCEPT ![w] = x] /\ UNCHANGED <<client, cases, tasks, late>> /\ CaseFree(w, c)
    BY <1>5 DEF RestoreCaseBegin
  <2> HIDE DEF x
  <2>3. Sound(x)
    BY <2>1 DEF Sound
  <2> QED  BY <2>1, <2>2, <2>3, RequestGoesOn
<1>6. ASSUME NEW c \in Cases, CreateCaseBegin(w, c) PROVE ArchiveInv'
  <2> DEFINE x == [NoTxn EXCEPT !.op = "create_case", !.done = {c}]
  <2>1. x \in Txn /\ x.op = "create_case" /\ ~x.holdsClient
    BY NoTxnType DEF Txn, Op
  <2>2. txn' = [txn EXCEPT ![w] = x] /\ UNCHANGED <<client, cases, tasks, late>>
    BY <1>6 DEF CreateCaseBegin
  <2> HIDE DEF x
  <2>3. Sound(x)
    BY <2>1 DEF Sound
  <2> QED  BY <2>1, <2>2, <2>3, RequestGoesOn
<1>7. ASSUME NEW c \in Cases, AutoTaskBegin(w, c) PROVE ArchiveInv'
  <2> DEFINE x == [NoTxn EXCEPT !.op = "auto_task", !.holdsClient = TRUE, !.done = {c}]
  <2>1. x \in Txn /\ x.op = "auto_task" /\ x.done = {c}
    BY NoTxnType DEF Txn, Op
  <2>2. txn' = [txn EXCEPT ![w] = x] /\ UNCHANGED <<client, cases, tasks, late>> /\ ClientFree(w)
    BY <1>7 DEF AutoTaskBegin
  <2> HIDE DEF x
  <2>3. Sound(x)
    BY <2>1 DEF Sound
  <2> QED  BY <2>1, <2>2, <2>3, RequestGoesOn
<1> QED  BY <1>1, <1>2, <1>3, <1>4, <1>5, <1>6, <1>7

LEMMA ArchiveNextKeeps ==
  ASSUME ArchiveInv, NEW w \in Clerks, ArchiveNext(w)
  PROVE  ArchiveInv'
<1> USE DEF ArchiveInv
<1> DEFINE c == First(txn[w].todo)
           todo == txn[w].todo \ {c}
           done == txn[w].done \union {c}
           suspends == txn[w].suspends \union Suspendable(c)
           x == [txn[w] EXCEPT !.todo = todo, !.done = done, !.suspends = suspends]
<1>1. txn[w] \in Txn /\ Sound(txn[w]) /\ txn[w].op = "archive_client" /\ txn[w].holdsClient
  BY DEF ArchiveTypeOK, TxnsAreSound, ArchiveNext, Sound
<1>2. c \in Cases /\ CaseFree(w, c) /\ ClientFree(w)
  <2>1. c \in Cases
    BY <1>1, FirstIsIn DEF ArchiveNext, Txn
  <2>2. ClientFree(w)
    BY <1>1 DEF LocksAreExclusive, ClientFree
  <2> QED  BY <2>1, <2>2 DEF ArchiveNext
<1>3. CASE txn' = [txn EXCEPT ![w] = NoTxn]
  BY <1>3, RollsBack DEF ArchiveNext
<1>4. CASE ~cases[c].archived /\ cases[c].last # MaxArchives
  <2>1. txn' = [txn EXCEPT ![w] = x]
    BY <1>1, <1>4 DEF ArchiveNext, ArchiveTypeOK, Txn
  <2>2. todo \in SUBSET Cases /\ done \in SUBSET Cases /\ suspends \in SUBSET Tasks
    BY <1>1, <1>2 DEF Txn, Suspendable
  <2>3. \A t \in Suspendable(c) : tasks[t].case = c /\ tasks[t].by = 0
    BY DEF Suspendable
  <2>4. cases[c].last < MaxArchives
    BY <1>2, <1>4, ArchiveAssumption DEF ArchiveTypeOK, Case, Batch
  <2>5. \A d \in txn[w].done : CaseFree(w, d)
    BY <1>1 DEF LocksAreExclusive, CaseFree, HoldsCase, Txn
  <2>6. \A d \in done : ~cases[d].archived /\ cases[d].last < MaxArchives /\ CaseFree(w, d)
    BY <1>1, <1>2, <1>4, <2>4, <2>5 DEF Sound
  <2>7. \A t \in suspends : tasks[t].case \in done /\ tasks[t].by = 0
    BY <1>1, <2>3 DEF Sound
  <2>8. UNCHANGED <<client, cases, tasks, late>> /\ client.last < MaxArchives
    BY <1>1 DEF ArchiveNext, Sound
  <2> HIDE DEF todo, done, suspends, c
  <2>9. x \in Txn /\ x.op = "archive_client" /\ x.holdsClient /\ x.done = done /\ x.suspends = suspends
    BY <1>1, <2>2 DEF Txn
  <2> HIDE DEF x
  <2>10. Sound(x)
    BY <2>6, <2>7, <2>8, <2>9 DEF Sound
  <2> QED  BY <1>2, <2>1, <2>6, <2>8, <2>9, <2>10, RequestGoesOn
<1> QED  BY <1>3, <1>4 DEF ArchiveNext

LEMMA RestoreNextKeeps ==
  ASSUME ArchiveInv, NEW w \in Clerks, RestoreNext(w)
  PROVE  ArchiveInv'
<1> USE DEF ArchiveInv
<1> DEFINE c == First(txn[w].todo)
           todo == txn[w].todo \ {c}
           done == txn[w].done \union {c}
           x == [txn[w] EXCEPT !.todo = todo, !.done = done]
<1>1. txn[w] \in Txn /\ Sound(txn[w]) /\ txn[w].op = "restore_client" /\ txn[w].holdsClient
  BY DEF ArchiveTypeOK, TxnsAreSound, RestoreNext, Sound
<1>2. c \in Cases /\ CaseFree(w, c) /\ ClientFree(w)
  <2>1. c \in Cases
    BY <1>1, FirstIsIn DEF RestoreNext, Txn
  <2>2. ClientFree(w)
    BY <1>1 DEF LocksAreExclusive, ClientFree
  <2> QED  BY <2>1, <2>2 DEF RestoreNext
<1>3. CASE txn' = [txn EXCEPT ![w] = NoTxn]
  BY <1>3, RollsBack DEF RestoreNext
<1>4. CASE c \in CasesOfBatch
  <2>1. txn' = [txn EXCEPT ![w] = x]
    BY <1>1, <1>4 DEF RestoreNext, ArchiveTypeOK, Txn
  <2>2. todo \in SUBSET Cases /\ done \in SUBSET Cases
    BY <1>1, <1>2 DEF Txn
  <2>3. done \subseteq CasesOfBatch /\ CasesOfBatch \subseteq done \union todo
    BY <1>1, <1>4 DEF Sound
  <2>4. \A d \in txn[w].done : CaseFree(w, d)
    BY <1>1 DEF LocksAreExclusive, CaseFree, HoldsCase, Txn
  <2>5. \A d \in done : CaseFree(w, d)
    BY <1>2, <2>4
  <2>6. UNCHANGED <<client, cases, tasks, late>>
    BY DEF RestoreNext
  <2> HIDE DEF todo, done, c
  <2>7. x \in Txn /\ x.op = "restore_client" /\ x.holdsClient /\ x.done = done /\ x.todo = todo
    BY <1>1, <2>2 DEF Txn
  <2> HIDE DEF x
  <2>8. Sound(x)
    BY <2>3, <2>7 DEF Sound
  <2> QED  BY <1>2, <2>1, <2>5, <2>6, <2>7, <2>8, RequestGoesOn
<1> QED  BY <1>3, <1>4 DEF RestoreNext

LEMMA ArchiveClientCommitKeeps ==
  ASSUME ArchiveInv, NEW w \in Clerks, ArchiveClientCommit(w)
  PROVE  ArchiveInv'
<1> USE DEF ArchiveInv
<1> DEFINE n == client.last + 1
<1>1. txn[w] \in Txn /\ Sound(txn[w]) /\ txn[w].op = "archive_client" /\ txn[w].holdsClient /\ client.last < MaxArchives
  BY DEF ArchiveTypeOK, TxnsAreSound, ArchiveClientCommit, Sound
<1>2. n \in Batch /\ n # 0 /\ client \in Client
  BY <1>1, ArchiveAssumption DEF ArchiveTypeOK, Client, Batch
<1>3. cases' = Archived(txn[w].done, n) /\ tasks' = Suspended(txn[w].suspends)
      /\ client' = [client EXCEPT !.archived = TRUE, !.open = n, !.last = n]
      /\ late' = late \union (ActiveCases \ txn[w].done)
      /\ txn' = [txn EXCEPT ![w] = NoTxn]
  BY DEF ArchiveClientCommit
<1> HIDE DEF n
<1>4. client' \in Client /\ client'.archived = TRUE /\ client'.open = n
  BY <1>2, <1>3 DEF Client
<1>5. /\ cases' \in [Cases -> Case] /\ tasks' \in [Tasks -> Task] /\ TasksHaveCases'
      /\ (\A c \in Cases : cases[c].archived <=> cases[c].open # 0)'
      /\ (\A t \in Tasks : tasks[t].by # 0 => tasks[t].by = cases[tasks[t].case].open)'
      /\ ActiveCases' = ActiveCases \ txn[w].done
      /\ \A v \in Clerks \ {w}, c \in Cases :
            HoldsCase(v, c) => cases'[c].archived = cases[c].archived /\ cases'[c].last = cases[c].last
      /\ \A v \in Clerks \ {w}, t \in Tasks :
            tasks[t].case \in Cases /\ HoldsCase(v, tasks[t].case) /\ tasks[t].by = 0
               => tasks'[t].case = tasks[t].case /\ tasks'[t].by = 0
  BY <1>1, <1>2, <1>3, ArchivingFits
<1>6. late' \in SUBSET Cases
  BY <1>3 DEF ArchiveTypeOK, ActiveCases
<1>7. FlagsMatchBatches'
  BY <1>2, <1>3, <1>4, <1>5 DEF FlagsMatchBatches
<1>8. \A v \in Clerks \ {w} : ~txn[v].holdsClient
  BY <1>1 DEF LocksAreExclusive
<1> QED  BY <1>3, <1>4, <1>5, <1>6, <1>7, <1>8, RequestEnds

LEMMA RestoreClientCommitKeeps ==
  ASSUME ArchiveInv, NEW w \in Clerks, RestoreClientCommit(w)
  PROVE  ArchiveInv'
<1> USE DEF ArchiveInv
<1>1. txn[w] \in Txn /\ Sound(txn[w]) /\ txn[w].op = "restore_client" /\ txn[w].holdsClient
  BY DEF ArchiveTypeOK, TxnsAreSound, RestoreClientCommit, Sound
<1>2. cases' = Restored(txn[w].done) /\ tasks' = Resumed(txn[w].done)
      /\ client' = [client EXCEPT !.archived = FALSE, !.open = 0]
      /\ late' = {} /\ txn' = [txn EXCEPT ![w] = NoTxn]
  BY DEF RestoreClientCommit
<1>3. client' \in Client /\ client'.archived = FALSE /\ client'.open = 0
  <2>1. 0 \in Batch
    BY ArchiveAssumption DEF Batch
  <2> QED  BY <1>2, <2>1 DEF ArchiveTypeOK, Client
<1>4. /\ GivenBack(txn[w].done)
      /\ \A v \in Clerks \ {w}, c \in Cases : HoldsCase(v, c) => c \notin txn[w].done
  BY <1>1, <1>2, RestoringFits
<1>5. FlagsMatchBatches' /\ TasksHaveCases'
  BY <1>3, <1>4 DEF FlagsMatchBatches, TasksHaveCases, GivenBack
<1>6. \A v \in Clerks \ {w} : ~txn[v].holdsClient
  BY <1>1 DEF LocksAreExclusive
<1>7. /\ \A v \in Clerks \ {w}, c \in Cases : HoldsCase(v, c) => cases'[c] = cases[c]
      /\ \A t \in Tasks : tasks[t].by = 0 => tasks'[t].case = tasks[t].case /\ tasks'[t].by = 0
      /\ cases' \in [Cases -> Case] /\ tasks' \in [Tasks -> Task]
  <2>1. \A c \in Cases \ txn[w].done : cases'[c] = cases[c]
    BY <1>4 DEF GivenBack
  <2>2. ASSUME NEW v \in Clerks \ {w}, NEW c \in Cases, HoldsCase(v, c) PROVE cases'[c] = cases[c]
    BY <1>4, <2>1, <2>2
  <2>3. \A t \in Tasks : tasks[t].by = 0 => tasks'[t].case = tasks[t].case /\ tasks'[t].by = 0
    BY <1>4 DEF GivenBack
  <2>4. cases' \in [Cases -> Case] /\ tasks' \in [Tasks -> Task]
    BY <1>4 DEF GivenBack
  <2> QED  BY <2>2, <2>3, <2>4
<1> QED  BY <1>2, <1>3, <1>5, <1>6, <1>7, RequestEnds

LEMMA ArchiveCaseCommitKeeps ==
  ASSUME ArchiveInv, NEW w \in Clerks, ArchiveCaseCommit(w)
  PROVE  ArchiveInv'
<1> USE DEF ArchiveInv
<1>1. txn[w].op = "archive_case" /\ ClientFree(w) /\ cases' = Archived(txn[w].done, 0)
      /\ tasks' = Suspended(txn[w].suspends) /\ late' = late \ txn[w].done
      /\ txn' = [txn EXCEPT ![w] = NoTxn] /\ client' = client
  BY DEF ArchiveCaseCommit
<1>2. 0 \in Batch
  BY ArchiveAssumption DEF Batch
<1>3. /\ cases' \in [Cases -> Case] /\ tasks' \in [Tasks -> Task] /\ TasksHaveCases'
      /\ (\A c \in Cases : cases[c].archived <=> cases[c].open # 0)'
      /\ (\A t \in Tasks : tasks[t].by # 0 => tasks[t].by = cases[tasks[t].case].open)'
      /\ ActiveCases' = ActiveCases \ txn[w].done
      /\ \A v \in Clerks \ {w}, c \in Cases :
            HoldsCase(v, c) => cases'[c].archived = cases[c].archived /\ cases'[c].last = cases[c].last
      /\ \A v \in Clerks \ {w}, t \in Tasks :
            tasks[t].case \in Cases /\ HoldsCase(v, tasks[t].case) /\ tasks[t].by = 0
               => tasks'[t].case = tasks[t].case /\ tasks'[t].by = 0
  BY <1>1, <1>2, ArchivingFits
<1>4. FlagsMatchBatches'
  BY <1>1, <1>3 DEF FlagsMatchBatches
<1>5. \A v \in Clerks \ {w} : ~txn[v].holdsClient
  BY <1>1 DEF ClientFree
<1>6. client' \in Client /\ late' \in SUBSET Cases
  BY <1>1 DEF ArchiveTypeOK
<1> QED  BY <1>1, <1>3, <1>4, <1>5, <1>6, RequestEnds

LEMMA RestoreCaseCommitKeeps ==
  ASSUME ArchiveInv, NEW w \in Clerks, RestoreCaseCommit(w)
  PROVE  ArchiveInv'
<1> USE DEF ArchiveInv
<1>1. txn[w].op = "restore_case" /\ ClientFree(w) /\ cases' = Restored(txn[w].done) /\ tasks' = Resumed(txn[w].done)
      /\ late' = (IF client.archived THEN late \union txn[w].done ELSE late)
      /\ txn' = [txn EXCEPT ![w] = NoTxn] /\ client' = client
  BY DEF RestoreCaseCommit
<1>2. /\ GivenBack(txn[w].done)
      /\ \A v \in Clerks \ {w}, c \in Cases : HoldsCase(v, c) => c \notin txn[w].done
  BY <1>1, RestoringFits
<1>3. FlagsMatchBatches' /\ TasksHaveCases'
  BY <1>1, <1>2 DEF FlagsMatchBatches, TasksHaveCases, GivenBack
<1>4. \A v \in Clerks \ {w} : ~txn[v].holdsClient
  BY <1>1 DEF ClientFree
<1>5. client' \in Client /\ late' \in SUBSET Cases
  BY <1>1 DEF ArchiveTypeOK, Txn
<1>6. /\ \A v \in Clerks \ {w}, c \in Cases : HoldsCase(v, c) => cases'[c] = cases[c]
      /\ \A t \in Tasks : tasks[t].by = 0 => tasks'[t].case = tasks[t].case /\ tasks'[t].by = 0
      /\ cases' \in [Cases -> Case] /\ tasks' \in [Tasks -> Task]
  <2>1. \A c \in Cases \ txn[w].done : cases'[c] = cases[c]
    BY <1>2 DEF GivenBack
  <2>2. ASSUME NEW v \in Clerks \ {w}, NEW c \in Cases, HoldsCase(v, c) PROVE cases'[c] = cases[c]
    BY <1>2, <2>1, <2>2
  <2>3. \A t \in Tasks : tasks[t].by = 0 => tasks'[t].case = tasks[t].case /\ tasks'[t].by = 0
    BY <1>2 DEF GivenBack
  <2>4. cases' \in [Cases -> Case] /\ tasks' \in [Tasks -> Task]
    BY <1>2 DEF GivenBack
  <2> QED  BY <2>2, <2>3, <2>4
<1> QED  BY <1>1, <1>3, <1>4, <1>5, <1>6, RequestEnds

LEMMA CreateCaseCommitKeeps ==
  ASSUME ArchiveInv, NEW w \in Clerks, CreateCaseCommit(w)
  PROVE  ArchiveInv'
<1> USE DEF ArchiveInv
<1>1. txn[w].op = "create_case" /\ ClientFree(w) /\ UNCHANGED <<client, tasks>>
      /\ cases' = [c \in Cases |-> IF c \in txn[w].done THEN [cases[c] EXCEPT !.exists = TRUE] ELSE cases[c]]
      /\ late' = (IF client.archived THEN late \union txn[w].done ELSE late)
      /\ txn' = [txn EXCEPT ![w] = NoTxn]
  BY DEF CreateCaseCommit
<1>2. ASSUME NEW c \in Cases
      PROVE  cases'[c] \in Case /\ cases'[c].archived = cases[c].archived /\ cases'[c].open = cases[c].open
             /\ cases'[c].last = cases[c].last /\ (c \notin txn[w].done => cases'[c] = cases[c])
  BY <1>1 DEF ArchiveTypeOK, Case
<1>3. cases' \in [Cases -> Case]
  BY <1>1, <1>2
<1>4. ActiveCases' \subseteq ActiveCases \union txn[w].done
  BY <1>2 DEF ActiveCases
<1>5. FlagsMatchBatches' /\ TasksHaveCases'
  <2>1. \A c \in Cases : cases'[c].archived <=> cases'[c].open # 0
    BY <1>2 DEF FlagsMatchBatches
  <2>2. \A t \in Tasks : tasks'[t].by # 0 => tasks'[t].by = cases'[tasks'[t].case].open /\ tasks'[t].case \in Cases
    BY <1>1, <1>2 DEF FlagsMatchBatches, TasksHaveCases
  <2>3. client'.archived => ActiveCases' \subseteq late'
    BY <1>1, <1>4 DEF FlagsMatchBatches
  <2> QED  BY <1>1, <2>1, <2>2, <2>3 DEF FlagsMatchBatches, TasksHaveCases
<1>6. \A v \in Clerks \ {w} : ~txn[v].holdsClient
  BY <1>1 DEF ClientFree
<1>7. client' \in Client /\ late' \in SUBSET Cases /\ tasks' \in [Tasks -> Task]
  BY <1>1 DEF ArchiveTypeOK, Txn
<1>8. \A t \in Tasks : tasks'[t] = tasks[t]
  BY <1>1
<1> QED  BY <1>1, <1>2, <1>3, <1>5, <1>6, <1>7, <1>8, RequestEnds

LEMMA EditClientSaveKeeps ==
  ASSUME ArchiveInv, NEW w \in Clerks, EditClientSave(w)
  PROVE  ArchiveInv'
<1> USE DEF ArchiveInv
<1> DEFINE over == client.overwritten \/ client.archived
<1>1. over \in BOOLEAN /\ client \in Client
  BY DEF ArchiveTypeOK, Client
<1>2. ClientFree(w) /\ UNCHANGED <<cases, tasks, late>> /\ txn' = [txn EXCEPT ![w] = NoTxn]
      /\ client' = [client EXCEPT !.archived = FALSE, !.overwritten = over]
  BY <1>1 DEF EditClientSave, Client
<1> HIDE DEF over
<1>3. client' \in Client /\ client'.archived = FALSE /\ client'.open = client.open /\ client'.overwritten = over
  BY <1>1, <1>2 DEF Client
<1>4. FlagsMatchBatches'
  BY <1>2, <1>3 DEF FlagsMatchBatches, over
<1>5. \A v \in Clerks \ {w} : ~txn[v].holdsClient
  BY <1>2 DEF ClientFree
<1> QED  BY <1>2, <1>3, <1>4, <1>5, RequestEnds DEF ArchiveTypeOK, TasksHaveCases

LEMMA AutoTaskCommitKeeps ==
  ASSUME ArchiveInv, NEW w \in Clerks, AutoTaskCommit(w)
  PROVE  ArchiveInv'
<1> USE DEF ArchiveInv
<1>1. PICK c \in Cases : txn[w].done = {c}
  BY DEF AutoTaskCommit, TxnsAreSound, Sound
<1>2. First(txn[w].done) = c
  BY <1>1, FirstIsIn
<1>3. PICK t \in Tasks : tasks[t].case = 0 /\ tasks' = [tasks EXCEPT ![t] = [case |-> c, open |-> TRUE, by |-> 0]]
  BY <1>2 DEF AutoTaskCommit
<1>4. tasks' \in [Tasks -> Task] /\ tasks'[t].by = 0 /\ \A u \in Tasks \ {t} : tasks'[u] = tasks[u]
  BY <1>3, ArchiveAssumption DEF ArchiveTypeOK, Task, Batch
<1>5. UNCHANGED <<client, cases, late>> /\ txn' = [txn EXCEPT ![w] = NoTxn]
  BY DEF AutoTaskCommit
<1>6. FlagsMatchBatches' /\ TasksHaveCases'
  BY <1>4, <1>5 DEF FlagsMatchBatches, TasksHaveCases, ActiveCases
<1>7. 0 \notin Cases
  BY DEF Cases
<1>8. CasesOfBatch' = CasesOfBatch
  BY <1>5 DEF CasesOfBatch
<1>9. client' \in Client /\ cases' \in [Cases -> Case] /\ late' \in SUBSET Cases
  BY <1>5 DEF ArchiveTypeOK
<1> QED  BY <1>3, <1>4, <1>5, <1>6, <1>7, <1>8, <1>9, RequestEnds

LEMMA CompleteTaskKeeps ==
  ASSUME ArchiveInv, NEW t \in Tasks, CompleteTask(t)
  PROVE  ArchiveInv'
<1> USE DEF ArchiveInv
<1>1. /\ tasks' \in [Tasks -> Task]
      /\ \A u \in Tasks : tasks'[u].case = tasks[u].case /\ tasks'[u].by = tasks[u].by
  BY DEF CompleteTask, ArchiveTypeOK, Task
<1>2. UNCHANGED <<client, cases, txn, late>>
  BY DEF CompleteTask
<1>3. TxnsAreSound'
  BY <1>1, <1>2 DEF TxnsAreSound, Sound, CasesOfBatch, ArchiveTypeOK, Txn
<1> QED  BY <1>1, <1>2, <1>3 DEF ArchiveTypeOK, FlagsMatchBatches, TasksHaveCases, LocksAreExclusive, HoldsCase, ActiveCases

LEMMA ArchiveStep ==
  ASSUME ArchiveInv, [ArchiveNextStep]_archiveVars
  PROVE  ArchiveInv'
<1>1. CASE UNCHANGED archiveVars
  BY <1>1 DEF archiveVars, ArchiveInv, ArchiveTypeOK, FlagsMatchBatches, TasksHaveCases, LocksAreExclusive, HoldsCase,
              ActiveCases, TxnsAreSound, Sound, CasesOfBatch
<1>2. ASSUME NEW w \in Clerks, DeadlockVictim(w) PROVE ArchiveInv'
  BY <1>2, RollsBack DEF DeadlockVictim
<1> QED  BY <1>1, <1>2, BeginKeeps, ArchiveNextKeeps, RestoreNextKeeps, ArchiveClientCommitKeeps, RestoreClientCommitKeeps,
            ArchiveCaseCommitKeeps, RestoreCaseCommitKeeps, CreateCaseCommitKeeps, EditClientSaveKeeps,
            AutoTaskCommitKeeps, CompleteTaskKeeps DEF ArchiveNextStep, Continue

LEMMA ArchiveInvHolds == ArchiveSpec => []ArchiveInv
  BY ArchiveInitInv, ArchiveStep, PTL DEF ArchiveSpec

(* For any clients' cases, tasks and clerks: a case is archived exactly      *)
(* while it has an open batch, its tasks are suspended by that batch alone,  *)
(* and the client's flag agrees with the client's open batch                 *)
(* (services/archive.py:29-248).                                             *)
THEOREM FlagsMatch == ArchiveSpec => []FlagsMatchBatches
<1>1. ArchiveInv => FlagsMatchBatches
  BY DEF ArchiveInv
<1> QED  BY <1>1, ArchiveInvHolds, PTL

-----------------------------------------------------------------------------
(* What a restore of the client gives back. *)
GivesBack ==
    client.open # 0 /\ client'.open = 0 =>
      /\ \A c \in Cases : cases[c].archived => (cases'[c].archived <=> cases[c].by # client.open)
      /\ \A t \in Tasks : tasks[t].by # 0 => (tasks'[t].by # 0 <=> cases[tasks[t].case].by # client.open)

LEMMA RestoreGivesBack ==
  ASSUME ArchiveInv, NEW w \in Clerks, RestoreClientCommit(w), client.open # 0
  PROVE  GivesBack
<1> USE DEF ArchiveInv
<1> DEFINE done == txn[w].done
<1>1. done = CasesOfBatch
  BY DEF RestoreClientCommit, TxnsAreSound, Sound
<1>2. GivenBack(done)
  BY RestoringFits DEF RestoreClientCommit
<1> HIDE DEF done
<1>3. \A c \in Cases : cases[c].archived => (c \in done <=> cases[c].by = client.open)
  BY <1>1 DEF CasesOfBatch, FlagsMatchBatches
<1>4. \A t \in Tasks : tasks[t].by # 0 => tasks[t].case \in Cases /\ cases[tasks[t].case].archived
  BY DEF FlagsMatchBatches, TasksHaveCases
<1>5. \A c \in Cases : cases[c].archived \in BOOLEAN
  BY DEF ArchiveTypeOK, Case
<1>6. \A c \in Cases : cases[c].archived => (cases'[c].archived <=> cases[c].by # client.open)
  BY <1>2, <1>3, <1>5 DEF GivenBack
<1>7. \A t \in Tasks : tasks[t].by # 0 => (tasks'[t].by # 0 <=> cases[tasks[t].case].by # client.open)
  <2>1. \A t \in Tasks : tasks[t].by # 0 => (tasks'[t].by = 0 <=> tasks[t].case \in done)
    BY <1>2 DEF GivenBack
  <2> QED  BY <1>3, <1>4, <2>1
<1> QED  BY <1>6, <1>7 DEF GivesBack

LEMMA OnlyARestoreGivesBack ==
  ASSUME ArchiveInv, [ArchiveNextStep]_archiveVars
  PROVE  GivesBack
<1> SUFFICES ASSUME client.open # 0, client'.open = 0 PROVE GivesBack
  BY DEF GivesBack
<1>1. CASE client' = client
  BY <1>1
<1>2. ASSUME NEW w \in Clerks, ArchiveClientCommit(w) PROVE FALSE
  <2>1. client'.open = client.last + 1 /\ client.last \in Nat
    BY <1>2, ArchiveAssumption DEF ArchiveClientCommit, ArchiveInv, ArchiveTypeOK, Client, Batch
  <2> QED  BY <2>1
<1>3. ASSUME NEW w \in Clerks, EditClientSave(w) PROVE FALSE
  BY <1>3 DEF EditClientSave, ArchiveInv, ArchiveTypeOK, Client
<1>4. ASSUME NEW w \in Clerks, RestoreClientCommit(w) PROVE GivesBack
  BY <1>4, RestoreGivesBack
<1> QED  BY <1>1, <1>2, <1>3, <1>4 DEF ArchiveNextStep, Continue, archiveVars, ArchiveClientBegin, ArchiveNext,
            RestoreClientBegin, RestoreNext, ArchiveCaseBegin, ArchiveCaseCommit, RestoreCaseBegin, RestoreCaseCommit,
            CreateCaseBegin, CreateCaseCommit, EditClientRead, AutoTaskBegin, AutoTaskCommit, CompleteTask, DeadlockVictim

(* A restore of the client gives back the cases archived with it and no      *)
(* other, whatever clerks have archived and restored in between              *)
(* (services/archive.py:221-229).                                            *)
THEOREM RestoresGiveBackTheBatch == ArchiveSpec => RestoreGivesBackTheBatch
<1>1. ArchiveSpec => [][GivesBack]_archiveVars
  BY OnlyARestoreGivesBack, ArchiveInvHolds, PTL DEF ArchiveSpec
<1> QED  BY <1>1 DEF RestoreGivesBackTheBatch, GivesBack

-----------------------------------------------------------------------------
(* The archive at once (AtomicArchive). *)

(* What a request has read is still so when it writes. *)
Knows(x) ==
    /\ x.op = "archive_client" => ~client.archived /\ client.open = 0 /\ x.done \union x.todo = ActiveCases
    /\ x.op = "archive_case" => ~client.archived /\ \E c \in ActiveCases : x.done = {c}
    /\ x.op \in {"archive_client", "archive_case"} =>
          x.suspends = {t \in Tasks : tasks[t].case \in x.done /\ tasks[t].open /\ tasks[t].by = 0}
    /\ x.op = "restore_client" => client.archived /\ client.open # 0
    /\ x.op = "restore_case" => \E c \in Cases : x.done = {c} /\ cases[c].archived
    /\ x.op \in {"idle", "edit_client"} => x.done = {}
    /\ x.op = "create_case" => \E c \in Cases : x.done = {c} /\ ~cases[c].exists
    /\ x.op = "auto_task" => /\ x.holdsClient
                             /\ \E c \in Cases : x.done = {c} /\ cases[c].exists
                                    /\ \A t \in Tasks : ~(tasks[t].case = c /\ tasks[t].open)

BatchesAreTheClients ==
    \A c \in Cases : /\ cases[c].archived => cases[c].exists
                     /\ cases[c].by # 0 => cases[c].archived /\ cases[c].by = client.open

NewCasesDiffer ==
    \A v, w \in Clerks :
        v # w /\ txn[v].op = "create_case" /\ txn[w].op = "create_case" => txn[v].done # txn[w].done

AtomicInv ==
    /\ ArchiveInv
    /\ \A w \in Clerks : Knows(txn[w])
    /\ BatchesAreTheClients
    /\ NewCasesDiffer

LEMMA AtomicInitInv == ArchiveInit => AtomicInv
<1> SUFFICES ASSUME ArchiveInit PROVE AtomicInv
  OBVIOUS
<1>1. ArchiveInv
  BY ArchiveInitInv
<1>2. \A w \in Clerks : txn[w].op = "idle" /\ txn[w].done = {}
  BY NoTxnType DEF ArchiveInit
<1>3. \A c \in Cases : cases[c].archived = FALSE /\ cases[c].by = 0
  BY DEF ArchiveInit
<1> QED  BY <1>1, <1>2, <1>3 DEF AtomicInv, Knows, BatchesAreTheClients, NewCasesDiffer

(* A request begins, goes on or is rolled back. *)
LEMMA KnowsMore ==
  ASSUME AtomicInv, ArchiveInv', NEW w \in Clerks, NEW x \in Txn, Knows(x),
         txn' = [txn EXCEPT ![w] = x], UNCHANGED <<client, cases, tasks>>,
         x.op = "create_case" => \A v \in Clerks \ {w} : txn[v].op = "create_case" => txn[v].done # x.done
  PROVE  AtomicInv'
<1>1. txn'[w] = x /\ \A v \in Clerks \ {w} : txn'[v] = txn[v]
  BY DEF AtomicInv, ArchiveInv, ArchiveTypeOK
<1>2. ASSUME NEW v \in Clerks PROVE Knows(txn[v])'
  <2>1. Knows(txn'[v])
    BY <1>1 DEF AtomicInv
  <2> QED  BY <2>1 DEF Knows, ActiveCases
<1>3. BatchesAreTheClients' /\ NewCasesDiffer'
  BY <1>1 DEF AtomicInv, BatchesAreTheClients, NewCasesDiffer
<1> QED  BY <1>2, <1>3 DEF AtomicInv

(* A request ends; who does not hold the client has not read what it wrote. *)
LEMMA KnowsStill ==
  ASSUME AtomicInv, ArchiveInv', NEW w \in Clerks, txn' = [txn EXCEPT ![w] = NoTxn], BatchesAreTheClients',
         \A v \in Clerks \ {w} : ~txn[v].holdsClient,
         \A v \in Clerks \ {w} : txn[v].op = "archive_case" => ~client'.archived,
         \A v \in Clerks \ {w}, c \in Cases : HoldsCase(v, c) => cases'[c] = cases[c],
         \A v \in Clerks \ {w}, c \in Cases :
            txn[v].op = "create_case" /\ c \in txn[v].done => cases'[c].exists = cases[c].exists,
         \A v \in Clerks \ {w}, t \in Tasks :
            \/ tasks[t].case \in Cases /\ HoldsCase(v, tasks[t].case)
            \/ tasks'[t].case \in Cases /\ HoldsCase(v, tasks'[t].case)
            => tasks'[t] = tasks[t]
  PROVE  AtomicInv'
<1> USE DEF AtomicInv
<1>1. txn'[w] = NoTxn /\ \A v \in Clerks \ {w} : txn'[v] = txn[v]
  BY DEF ArchiveInv, ArchiveTypeOK
<1>2. ASSUME NEW v \in Clerks PROVE Knows(txn[v])'
  <2>1. CASE v = w
    BY <1>1, <2>1, NoTxnType DEF Knows
  <2>2. CASE v # w
    <3> PICK x \in Txn : x = txn[v]
      BY DEF ArchiveInv, ArchiveTypeOK
    <3>1. /\ txn'[v] = x /\ Knows(x) /\ ~x.holdsClient
          /\ x.op = "archive_case" => ~client'.archived
          /\ x.op \notin {"archive_client", "restore_client", "auto_task"}
      BY <1>1, <2>2 DEF ArchiveInv, TxnsAreSound, Sound, Knows
    <3>2. x.done \in SUBSET Cases /\ x.suspends \in SUBSET Tasks
      BY DEF Txn
    <3>3. x.op \in {"archive_case", "restore_case"} => \A c \in x.done : cases'[c] = cases[c]
      BY <2>2, <3>2 DEF HoldsCase
    <3>4. x.op = "create_case" => \A c \in x.done : cases'[c].exists = cases[c].exists
      BY <2>2, <3>2
    <3>5. x.op = "archive_case" =>
            \A t \in Tasks : tasks[t].case \in x.done \/ tasks'[t].case \in x.done => tasks'[t] = tasks[t]
      BY <2>2, <3>2 DEF HoldsCase
    <3>6. x.op = "archive_case" => \E c \in ActiveCases' : x.done = {c}
      BY <3>1, <3>3 DEF Knows, ActiveCases
    <3>7. x.op = "archive_case" =>
            x.suspends = {t \in Tasks : tasks'[t].case \in x.done /\ tasks'[t].open /\ tasks'[t].by = 0}
      BY <3>1, <3>5 DEF Knows
    <3>8. x.op = "restore_case" => \E c \in Cases : x.done = {c} /\ cases'[c].archived
      BY <3>1, <3>3 DEF Knows
    <3>9. x.op = "create_case" => \E c \in Cases : x.done = {c} /\ ~cases'[c].exists
      BY <3>1, <3>4 DEF Knows
    <3> QED  BY <3>1, <3>6, <3>7, <3>8, <3>9 DEF Knows
  <2> QED  BY <2>1, <2>2
<1>3. NewCasesDiffer'
  BY <1>1, NoTxnType DEF NewCasesDiffer
<1> QED  BY <1>2, <1>3
(* What a commit that archives makes of the rows ... *)
PutAwayAs(done, batch) ==
    /\ \A c \in done : cases'[c].exists = cases[c].exists /\ cases'[c].archived = TRUE /\ cases'[c].by = batch
    /\ \A c \in Cases \ done : cases'[c] = cases[c]
    /\ \A t \in Tasks : /\ tasks'[t].case = tasks[t].case /\ tasks'[t].open = tasks[t].open
                        /\ tasks'[t].by # 0 <=> \/ tasks[t].by # 0
                                                \/ tasks[t].open /\ tasks[t].case \in done
    /\ \A t \in Tasks : tasks[t].case \notin done => tasks'[t] = tasks[t]

LEMMA ArchivingPutsAway ==
  ASSUME AtomicInv, NEW w \in Clerks, txn[w].op \in {"archive_client", "archive_case"}, NEW batch \in Batch,
         cases' = Archived(txn[w].done, batch), tasks' = Suspended(txn[w].suspends)
  PROVE  PutAwayAs(txn[w].done, batch)
<1> USE DEF AtomicInv, ArchiveInv
<1> DEFINE done == txn[w].done
           suspends == txn[w].suspends
<1>1. /\ done \in SUBSET Cases /\ suspends \in SUBSET Tasks
      /\ \A c \in done : cases[c].last < MaxArchives
      /\ suspends = {t \in Tasks : tasks[t].case \in done /\ tasks[t].open /\ tasks[t].by = 0}
  BY DEF ArchiveTypeOK, Txn, TxnsAreSound, Sound, Knows
<1>2. cases \in [Cases -> Case] /\ tasks \in [Tasks -> Task]
      /\ cases' = Archived(done, batch) /\ tasks' = Suspended(suspends)
  BY DEF ArchiveTypeOK
<1> HIDE DEF done, suspends
<1>3. \A c \in done : cases'[c].exists = cases[c].exists /\ cases'[c].archived = TRUE /\ cases'[c].by = batch
  BY <1>1, <1>2 DEF Archived, Case
<1>4. \A c \in Cases \ done : cases'[c] = cases[c]
  BY <1>1, <1>2 DEF Archived
<1>5. \A t \in Tasks \ suspends : tasks'[t] = tasks[t]
  BY <1>1, <1>2 DEF Suspended
<1>6. ASSUME NEW t \in suspends
      PROVE  tasks'[t].case = tasks[t].case /\ tasks'[t].open = tasks[t].open /\ tasks'[t].by # 0
  <2>1. cases[tasks[t].case].last + 1 # 0
    BY <1>1, <1>2, ArchiveAssumption DEF Case, Batch
  <2> QED  BY <1>1, <1>2, <2>1 DEF Suspended, Task
<1>7. PutAwayAs(done, batch)
  BY <1>1, <1>3, <1>4, <1>5, <1>6 DEF PutAwayAs
<1> QED  BY <1>7 DEF done

(* ... and one that restores. *)
BroughtBack(done) ==
    /\ \A c \in done : cases'[c].exists = cases[c].exists /\ cases'[c].archived = FALSE /\ cases'[c].by = 0
    /\ \A c \in Cases \ done : cases'[c] = cases[c]
    /\ \A t \in Tasks : /\ tasks'[t].case = tasks[t].case /\ tasks'[t].open = tasks[t].open
                        /\ tasks'[t].by # 0 <=> tasks[t].by # 0 /\ tasks[t].case \notin done
    /\ \A t \in Tasks : tasks[t].case \notin done => tasks'[t] = tasks[t]

LEMMA RestoringBringsBack ==
  ASSUME AtomicInv, NEW w \in Clerks, txn[w].op \in {"restore_client", "restore_case"},
         cases' = Restored(txn[w].done), tasks' = Resumed(txn[w].done)
  PROVE  BroughtBack(txn[w].done)
<1> USE DEF AtomicInv, ArchiveInv
<1> DEFINE done == txn[w].done
<1>1. done \in SUBSET Cases /\ cases \in [Cases -> Case] /\ tasks \in [Tasks -> Task]
      /\ cases' = Restored(done) /\ tasks' = Resumed(done)
  BY DEF ArchiveTypeOK, Txn
<1> HIDE DEF done
<1>2. \A c \in done : cases'[c].exists = cases[c].exists /\ cases'[c].archived = FALSE /\ cases'[c].by = 0
  BY <1>1 DEF Restored, Case
<1>3. \A c \in Cases \ done : cases'[c] = cases[c]
  BY <1>1 DEF Restored
<1>4. \A t \in Tasks : tasks[t].by # 0 => tasks[t].by = cases[tasks[t].case].open
  BY DEF FlagsMatchBatches
<1>5. ASSUME NEW t \in Tasks
      PROVE  /\ tasks'[t].case = tasks[t].case /\ tasks'[t].open = tasks[t].open
             /\ tasks'[t].by # 0 <=> tasks[t].by # 0 /\ tasks[t].case \notin done
             /\ tasks[t].case \notin done => tasks'[t] = tasks[t]
  BY <1>1, <1>4 DEF Resumed, Task
<1>6. BroughtBack(done)
  BY <1>2, <1>3, <1>5 DEF BroughtBack
<1> QED  BY <1>6 DEF done

(* The rows a request has locked are nobody else's to write. *)
LEMMA OthersHoldOthers ==
  ASSUME AtomicInv, NEW w \in Clerks, txn[w].op \notin {"auto_task", "create_case"}
  PROVE  \A v \in Clerks \ {w}, c \in Cases : HoldsCase(v, c) => c \notin txn[w].done
  BY DEF AtomicInv, ArchiveInv, LocksAreExclusive, HoldsCase

LEMMA ArchiveClientAtOnce ==
  ASSUME AtomicInv, ArchiveInv', NEW w \in Clerks, ArchiveClientCommit(w)
  PROVE  AtomicInv' /\ AtOnce!ArchiveClient
<1> USE DEF AtomicInv, ArchiveInv
<1> DEFINE n == client.last + 1
           done == txn[w].done
<1>1. /\ txn[w].op = "archive_client" /\ txn[w].holdsClient /\ txn[w].todo = {}
      /\ ~client.archived /\ client.open = 0 /\ client.last < MaxArchives /\ txn[w] \in Txn
      /\ done \union txn[w].todo = ActiveCases
  BY DEF ArchiveClientCommit, TxnsAreSound, Sound, Knows, ArchiveTypeOK
<1>2. n \in Batch /\ n # 0 /\ client \in Client
  BY <1>1, ArchiveAssumption DEF ArchiveTypeOK, Client, Batch
<1>3. cases' = Archived(txn[w].done, n) /\ tasks' = Suspended(txn[w].suspends)
      /\ client' = [client EXCEPT !.archived = TRUE, !.open = n, !.last = n]
      /\ txn' = [txn EXCEPT ![w] = NoTxn]
  BY DEF ArchiveClientCommit
<1> HIDE DEF n
<1>4. PutAwayAs(done, n)
  BY <1>1, <1>2, <1>3, ArchivingPutsAway
<1>5. done = ActiveCases
  BY <1>1
<1>6. \A v \in Clerks \ {w}, c \in Cases : HoldsCase(v, c) => c \notin done
  BY <1>1, OthersHoldOthers
<1> HIDE DEF done
<1>7. client'.archived = TRUE /\ client'.open = n
  BY <1>2, <1>3 DEF Client
<1>8. BatchesAreTheClients'
  BY <1>1, <1>4, <1>5, <1>7 DEF BatchesAreTheClients, PutAwayAs, ActiveCases
<1>9. \A v \in Clerks \ {w} : txn[v].op # "archive_case"
  <2> SUFFICES ASSUME NEW v \in Clerks \ {w}, txn[v].op = "archive_case" PROVE FALSE
    OBVIOUS
  <2>1. PICK c \in ActiveCases : txn[v].done = {c}
    BY DEF Knows
  <2> QED  BY <1>5, <1>6, <2>1 DEF HoldsCase, ActiveCases
<1>10. AtomicInv'
  <2>1. \A v \in Clerks \ {w} : ~txn[v].holdsClient
    BY <1>1 DEF LocksAreExclusive
  <2>2. \A c \in Cases : cases'[c].exists = cases[c].exists
    BY <1>4 DEF PutAwayAs
  <2>3. \A v \in Clerks \ {w}, c \in Cases : HoldsCase(v, c) => cases'[c] = cases[c]
    BY <1>4, <1>6 DEF PutAwayAs
  <2>4. \A v \in Clerks \ {w}, t \in Tasks :
            \/ tasks[t].case \in Cases /\ HoldsCase(v, tasks[t].case)
            \/ tasks'[t].case \in Cases /\ HoldsCase(v, tasks'[t].case)
            => tasks'[t] = tasks[t]
    BY <1>4, <1>6 DEF PutAwayAs
  <2>5. \A v \in Clerks \ {w}, c \in Cases :
            txn[v].op = "create_case" /\ c \in txn[v].done => cases'[c].exists = cases[c].exists
    BY <2>2
  <2> QED  BY <1>3, <1>8, <1>9, <2>1, <2>3, <2>4, <2>5, KnowsStill
<1>11. AtOnce!PutAway(AtOnce!In("active"), "together")
  <2>1. AtOnce!In("active") = done
    BY <1>5 DEF AtOnce!In, PlaceOf, ActiveCases
  <2>2. \A c \in Cases : PlaceOf(c)' = IF c \in done THEN "together" ELSE PlaceOf(c)
    BY <1>2, <1>4, <1>5 DEF PutAwayAs, PlaceOf, ActiveCases
  <2>3. {t \in Tasks : tasks'[t].by # 0} =
           {t \in Tasks : tasks[t].by # 0} \union ({t \in Tasks : tasks[t].open} \intersect AtOnce!TasksOf(done))
    BY <1>4 DEF PutAwayAs, AtOnce!TasksOf
  <2> QED  BY <2>1, <2>2, <2>3 DEF AtOnce!PutAway
<1>12. \A t \in Tasks : tasks'[t].case = tasks[t].case /\ tasks'[t].open = tasks[t].open
  BY <1>4 DEF PutAwayAs
<1> QED  BY <1>1, <1>2, <1>7, <1>10, <1>11, <1>12 DEF AtOnce!ArchiveClient
LEMMA RestoreClientAtOnce ==
  ASSUME AtomicInv, ArchiveInv', NEW w \in Clerks, RestoreClientCommit(w)
  PROVE  AtomicInv' /\ AtOnce!RestoreClient
<1> USE DEF AtomicInv, ArchiveInv
<1> DEFINE done == txn[w].done
<1>1. /\ txn[w].op = "restore_client" /\ txn[w].holdsClient /\ txn[w].todo = {}
      /\ client.archived /\ client.open # 0 /\ client \in Client
      /\ done \subseteq CasesOfBatch /\ CasesOfBatch \subseteq done \union txn[w].todo
  BY DEF RestoreClientCommit, TxnsAreSound, Sound, Knows, ArchiveTypeOK
<1>2. cases' = Restored(txn[w].done) /\ tasks' = Resumed(txn[w].done)
      /\ client' = [client EXCEPT !.archived = FALSE, !.open = 0]
      /\ txn' = [txn EXCEPT ![w] = NoTxn]
  BY DEF RestoreClientCommit
<1>3. BroughtBack(done)
  BY <1>1, <1>2, RestoringBringsBack
<1>4. \A c \in Cases : c \in done <=> cases[c].exists /\ cases[c].archived /\ cases[c].by # 0
  BY <1>1 DEF CasesOfBatch, FlagsMatchBatches, BatchesAreTheClients
<1>5. done \subseteq Cases
  BY <1>1 DEF CasesOfBatch
<1>6. \A v \in Clerks \ {w}, c \in Cases : HoldsCase(v, c) => c \notin done
  BY <1>1, OthersHoldOthers
<1> HIDE DEF done
<1>7. client'.archived = FALSE /\ client'.open = 0
  BY <1>1, <1>2 DEF Client
<1>8. BatchesAreTheClients'
  BY <1>3, <1>4, <1>7 DEF BatchesAreTheClients, BroughtBack
<1>9. AtomicInv'
  <2>1. \A v \in Clerks \ {w} : ~txn[v].holdsClient
    BY <1>1 DEF LocksAreExclusive
  <2>2. \A c \in Cases : cases'[c].exists = cases[c].exists
    BY <1>3 DEF BroughtBack
  <2>3. \A v \in Clerks \ {w}, c \in Cases : HoldsCase(v, c) => cases'[c] = cases[c]
    BY <1>3, <1>6 DEF BroughtBack
  <2>4. \A v \in Clerks \ {w}, t \in Tasks :
            \/ tasks[t].case \in Cases /\ HoldsCase(v, tasks[t].case)
            \/ tasks'[t].case \in Cases /\ HoldsCase(v, tasks'[t].case)
            => tasks'[t] = tasks[t]
    BY <1>3, <1>6 DEF BroughtBack
  <2>5. \A v \in Clerks \ {w}, c \in Cases :
            txn[v].op = "create_case" /\ c \in txn[v].done => cases'[c].exists = cases[c].exists
    BY <2>2
  <2> QED  BY <1>2, <1>7, <1>8, <2>1, <2>3, <2>4, <2>5, KnowsStill
<1>10. AtOnce!BringBack(AtOnce!In("together"))
  <2>1. AtOnce!In("together") = done
    BY <1>4, <1>5 DEF AtOnce!In, PlaceOf
  <2>2. \A c \in Cases : PlaceOf(c)' = IF c \in done THEN "active" ELSE PlaceOf(c)
    BY <1>3, <1>4 DEF BroughtBack, PlaceOf
  <2>3. {t \in Tasks : tasks'[t].by # 0} = {t \in Tasks : tasks[t].by # 0} \ AtOnce!TasksOf(done)
    BY <1>3 DEF BroughtBack, AtOnce!TasksOf
  <2> QED  BY <2>1, <2>2, <2>3 DEF AtOnce!BringBack
<1>11. \A t \in Tasks : tasks'[t].case = tasks[t].case /\ tasks'[t].open = tasks[t].open
  BY <1>3 DEF BroughtBack
<1> QED  BY <1>1, <1>7, <1>9, <1>10, <1>11 DEF AtOnce!RestoreClient

LEMMA ArchiveCaseAtOnce ==
  ASSUME AtomicInv, ArchiveInv', NEW w \in Clerks, ArchiveCaseCommit(w)
  PROVE  AtomicInv' /\ \E c \in Cases : AtOnce!ArchiveCase(c)
<1> USE DEF AtomicInv, ArchiveInv
<1>1. txn[w].op = "archive_case" /\ ~client.archived /\ 0 \in Batch
  BY ArchiveAssumption DEF ArchiveCaseCommit, Knows, Batch
<1>2. PICK c \in ActiveCases : txn[w].done = {c}
  BY <1>1 DEF Knows
<1>3. cases' = Archived(txn[w].done, 0) /\ tasks' = Suspended(txn[w].suspends)
      /\ txn' = [txn EXCEPT ![w] = NoTxn] /\ client' = client /\ ClientFree(w)
  BY DEF ArchiveCaseCommit
<1>4. PutAwayAs({c}, 0)
  BY <1>1, <1>2, <1>3, ArchivingPutsAway
<1>5. \A v \in Clerks \ {w}, d \in Cases : HoldsCase(v, d) => d # c
  BY <1>1, <1>2, OthersHoldOthers
<1>6. c \in Cases /\ cases[c].exists /\ ~cases[c].archived
  BY DEF ActiveCases
<1>7. BatchesAreTheClients'
  BY <1>3, <1>4, <1>6 DEF BatchesAreTheClients, PutAwayAs
<1>8. AtomicInv'
  <2>1. \A v \in Clerks \ {w} : ~txn[v].holdsClient
    BY <1>3 DEF ClientFree
  <2>2. \A d \in Cases : cases'[d].exists = cases[d].exists
    BY <1>4 DEF PutAwayAs
  <2>3. \A v \in Clerks \ {w}, d \in Cases : HoldsCase(v, d) => cases'[d] = cases[d]
    BY <1>4, <1>5 DEF PutAwayAs
  <2>4. \A v \in Clerks \ {w}, t \in Tasks :
            \/ tasks[t].case \in Cases /\ HoldsCase(v, tasks[t].case)
            \/ tasks'[t].case \in Cases /\ HoldsCase(v, tasks'[t].case)
            => tasks'[t] = tasks[t]
    BY <1>4, <1>5 DEF PutAwayAs
  <2>5. \A v \in Clerks \ {w}, d \in Cases :
            txn[v].op = "create_case" /\ d \in txn[v].done => cases'[d].exists = cases[d].exists
    BY <2>2
  <2> QED  BY <1>1, <1>3, <1>7, <2>1, <2>3, <2>4, <2>5, KnowsStill
<1>9. AtOnce!PutAway({c}, "alone")
  <2>1. \A d \in Cases : PlaceOf(d)' = IF d \in {c} THEN "alone" ELSE PlaceOf(d)
    BY <1>4, <1>6 DEF PutAwayAs, PlaceOf
  <2>2. {t \in Tasks : tasks'[t].by # 0} =
           {t \in Tasks : tasks[t].by # 0} \union ({t \in Tasks : tasks[t].open} \intersect AtOnce!TasksOf({c}))
    BY <1>4 DEF PutAwayAs, AtOnce!TasksOf
  <2> QED  BY <2>1, <2>2 DEF AtOnce!PutAway
<1>10. \A t \in Tasks : tasks'[t].case = tasks[t].case /\ tasks'[t].open = tasks[t].open
  BY <1>4 DEF PutAwayAs
<1>11. PlaceOf(c) = "active"
  BY <1>6 DEF PlaceOf
<1> QED  BY <1>1, <1>3, <1>6, <1>8, <1>9, <1>10, <1>11 DEF AtOnce!ArchiveCase

LEMMA RestoreCaseAtOnce ==
  ASSUME AtomicInv, ArchiveInv', NEW w \in Clerks, RestoreCaseCommit(w)
  PROVE  AtomicInv' /\ \E c \in Cases : AtOnce!RestoreCase(c)
<1> USE DEF AtomicInv, ArchiveInv
<1>1. txn[w].op = "restore_case"
  BY DEF RestoreCaseCommit
<1>2. PICK c \in Cases : txn[w].done = {c} /\ cases[c].archived
  BY <1>1 DEF Knows
<1>3. cases' = Restored(txn[w].done) /\ tasks' = Resumed(txn[w].done)
      /\ txn' = [txn EXCEPT ![w] = NoTxn] /\ client' = client /\ ClientFree(w)
  BY DEF RestoreCaseCommit
<1>4. BroughtBack({c})
  BY <1>1, <1>2, <1>3, RestoringBringsBack
<1>5. \A v \in Clerks \ {w}, d \in Cases : HoldsCase(v, d) => d # c
  BY <1>1, <1>2, OthersHoldOthers
<1>6. cases[c].exists
  BY <1>2 DEF BatchesAreTheClients
<1>7. BatchesAreTheClients'
  BY <1>3, <1>4 DEF BatchesAreTheClients, BroughtBack
<1>8. AtomicInv'
  <2>1. \A v \in Clerks \ {w} : ~txn[v].holdsClient
    BY <1>3 DEF ClientFree
  <2>2. \A d \in Cases : cases'[d].exists = cases[d].exists
    BY <1>4 DEF BroughtBack
  <2>3. \A v \in Clerks \ {w}, d \in Cases : HoldsCase(v, d) => cases'[d] = cases[d]
    BY <1>4, <1>5 DEF BroughtBack
  <2>4. \A v \in Clerks \ {w}, t \in Tasks :
            \/ tasks[t].case \in Cases /\ HoldsCase(v, tasks[t].case)
            \/ tasks'[t].case \in Cases /\ HoldsCase(v, tasks'[t].case)
            => tasks'[t] = tasks[t]
    BY <1>4, <1>5 DEF BroughtBack
  <2>5. \A v \in Clerks \ {w}, d \in Cases :
            txn[v].op = "create_case" /\ d \in txn[v].done => cases'[d].exists = cases[d].exists
    BY <2>2
  <2>6. \A v \in Clerks \ {w} : txn[v].op = "archive_case" => ~client'.archived
    BY <1>3 DEF Knows
  <2> QED  BY <1>3, <1>7, <2>1, <2>3, <2>4, <2>5, <2>6, KnowsStill
<1>9. AtOnce!BringBack({c})
  <2>1. \A d \in Cases : PlaceOf(d)' = IF d \in {c} THEN "active" ELSE PlaceOf(d)
    BY <1>4, <1>6 DEF BroughtBack, PlaceOf
  <2>2. {t \in Tasks : tasks'[t].by # 0} = {t \in Tasks : tasks[t].by # 0} \ AtOnce!TasksOf({c})
    BY <1>4 DEF BroughtBack, AtOnce!TasksOf
  <2> QED  BY <2>1, <2>2 DEF AtOnce!BringBack
<1>10. \A t \in Tasks : tasks'[t].case = tasks[t].case /\ tasks'[t].open = tasks[t].open
  BY <1>4 DEF BroughtBack
<1>11. PlaceOf(c) \in {"alone", "together"}
  BY <1>2, <1>6 DEF PlaceOf
<1> QED  BY <1>2, <1>3, <1>8, <1>9, <1>10, <1>11 DEF AtOnce!RestoreCase

LEMMA CreateCaseAtOnce ==
  ASSUME AtomicInv, ArchiveInv', NEW w \in Clerks, CreateCaseCommit(w)
  PROVE  AtomicInv' /\ \E c \in Cases : AtOnce!CreateCase(c)
<1> USE DEF AtomicInv, ArchiveInv
<1>1. txn[w].op = "create_case" /\ txn' = [txn EXCEPT ![w] = NoTxn] /\ UNCHANGED <<client, tasks>> /\ ClientFree(w)
  BY DEF CreateCaseCommit
<1>2. PICK c \in Cases : txn[w].done = {c} /\ ~cases[c].exists
  BY <1>1 DEF Knows
<1>3. /\ cases'[c].exists = TRUE /\ cases'[c].archived = cases[c].archived /\ cases'[c].by = cases[c].by
      /\ \A d \in Cases \ {c} : cases'[d] = cases[d]
  BY <1>2 DEF CreateCaseCommit, ArchiveTypeOK, Case
<1>4. ~cases[c].archived
  BY <1>2 DEF BatchesAreTheClients
<1>5. BatchesAreTheClients'
  BY <1>1, <1>3, <1>4 DEF BatchesAreTheClients
<1>6. AtomicInv'
  <2>1. \A v \in Clerks \ {w} : ~txn[v].holdsClient
    BY <1>1 DEF ClientFree
  <2>2. \A v \in Clerks \ {w}, d \in Cases : HoldsCase(v, d) => d # c
    <3> SUFFICES ASSUME NEW v \in Clerks \ {w}, HoldsCase(v, c) PROVE FALSE
      OBVIOUS
    <3>1. txn[v] \in Txn /\ Sound(txn[v]) /\ Knows(txn[v]) /\ ~txn[v].holdsClient
      BY <2>1 DEF TxnsAreSound, ArchiveTypeOK
    <3>2. c \in txn[v].done /\ txn[v].op \notin {"auto_task", "create_case", "archive_client", "restore_client"}
      BY <3>1 DEF HoldsCase, Sound
    <3>3. txn[v].op \in {"archive_case", "restore_case"} => cases[c].exists
      BY <3>1, <3>2 DEF Knows, ActiveCases, BatchesAreTheClients
    <3>4. txn[v].op \notin {"idle", "edit_client"}
      BY <3>1, <3>2 DEF Knows
    <3> QED  BY <1>2, <3>1, <3>2, <3>3, <3>4 DEF Txn, Op
  <2>3. \A v \in Clerks \ {w}, d \in Cases : HoldsCase(v, d) => cases'[d] = cases[d]
    BY <1>3, <2>2
  <2>4. \A t \in Tasks : tasks'[t] = tasks[t]
    BY <1>1
  <2>5. \A v \in Clerks \ {w}, d \in Cases :
            txn[v].op = "create_case" /\ d \in txn[v].done => cases'[d].exists = cases[d].exists
    <3> SUFFICES ASSUME NEW v \in Clerks \ {w}, NEW d \in txn[v].done, d \in Cases, txn[v].op = "create_case"
                 PROVE  d # c
      BY <1>3
    <3>1. PICK e \in Cases : txn[v].done = {e}
      BY DEF Knows
    <3>2. txn[v].done # txn[w].done
      BY <1>1 DEF NewCasesDiffer
    <3> QED  BY <1>2, <3>1, <3>2
  <2>6. \A v \in Clerks \ {w} : txn[v].op = "archive_case" => ~client'.archived
    BY <1>1 DEF Knows
  <2> QED  BY <1>1, <1>5, <2>1, <2>3, <2>4, <2>5, <2>6, KnowsStill
<1>7. PlaceOf(c) = "nowhere" /\ \A d \in Cases : PlaceOf(d)' = IF d = c THEN "active" ELSE PlaceOf(d)
  BY <1>2, <1>3, <1>4 DEF PlaceOf
<1> QED  BY <1>1, <1>6, <1>7 DEF AtOnce!CreateCase

LEMMA EditClientAtOnce ==
  ASSUME AtomicInv, ArchiveInv', NEW w \in Clerks, EditClientSave(w)
  PROVE  AtomicInv' /\ AtOnce!EditClient
<1> USE DEF AtomicInv, ArchiveInv
<1>1. txn' = [txn EXCEPT ![w] = NoTxn] /\ UNCHANGED <<cases, tasks>> /\ ClientFree(w)
      /\ client'.archived = FALSE /\ client'.open = client.open
  BY DEF EditClientSave, ArchiveTypeOK, Client
<1>2. BatchesAreTheClients'
  BY <1>1 DEF BatchesAreTheClients
<1>3. \A v \in Clerks \ {w} : ~txn[v].holdsClient
  BY <1>1 DEF ClientFree
<1>4. AtomicInv'
  BY <1>1, <1>2, <1>3, KnowsStill
<1> QED  BY <1>1, <1>4 DEF AtOnce!EditClient, PlaceOf

LEMMA AutoTaskAtOnce ==
  ASSUME AtomicInv, ArchiveInv', NEW w \in Clerks, AutoTaskCommit(w)
  PROVE  AtomicInv' /\ \E c \in Cases, t \in Tasks : AtOnce!CreateTask(t, c)
<1> USE DEF AtomicInv, ArchiveInv
<1>1. txn[w].op = "auto_task" /\ txn[w].holdsClient
      /\ txn' = [txn EXCEPT ![w] = NoTxn] /\ UNCHANGED <<client, cases>>
  BY DEF AutoTaskCommit, Knows
<1>2. PICK c \in Cases : /\ txn[w].done = {c} /\ cases[c].exists
                         /\ \A t \in Tasks : ~(tasks[t].case = c /\ tasks[t].open)
  BY <1>1 DEF Knows
<1>3. First(txn[w].done) = c
  BY <1>2, FirstIsIn
<1>4. PICK t \in Tasks : tasks[t].case = 0 /\ tasks' = [tasks EXCEPT ![t] = [case |-> c, open |-> TRUE, by |-> 0]]
  BY <1>3 DEF AutoTaskCommit
<1>5. /\ tasks'[t].case = c /\ tasks'[t].open = TRUE /\ tasks'[t].by = 0
      /\ \A u \in Tasks \ {t} : tasks'[u] = tasks[u]
  BY <1>4 DEF ArchiveTypeOK
<1>6. 0 \notin Cases /\ tasks[t].by = 0
  BY <1>4 DEF Cases, TasksHaveCases
<1>7. BatchesAreTheClients'
  BY <1>1 DEF BatchesAreTheClients
<1>8. AtomicInv'
  <2>1. \A v \in Clerks \ {w} : ~txn[v].holdsClient
    BY <1>1 DEF LocksAreExclusive
  <2>2. \A v \in Clerks \ {w} : ~HoldsCase(v, c)
    BY <1>2 DEF AutoTaskCommit, CaseFree
  <2>3. \A v \in Clerks \ {w}, u \in Tasks :
            \/ tasks[u].case \in Cases /\ HoldsCase(v, tasks[u].case)
            \/ tasks'[u].case \in Cases /\ HoldsCase(v, tasks'[u].case)
            => tasks'[u] = tasks[u]
    BY <1>4, <1>5, <1>6, <2>2
  <2>4. \A v \in Clerks \ {w} : txn[v].op = "archive_case" => ~client'.archived
    BY <1>1 DEF Knows
  <2>5. \A d \in Cases : cases'[d] = cases[d]
    BY <1>1
  <2> QED  BY <1>1, <1>7, <2>1, <2>3, <2>4, <2>5, KnowsStill
<1>9. PlaceOf(c) # "nowhere" /\ UNCHANGED [d \in Cases |-> PlaceOf(d)]
  BY <1>1, <1>2 DEF PlaceOf
<1>10. {u \in Tasks : tasks[u].open} \intersect AtOnce!TasksOf({c}) = {}
  BY <1>2 DEF AtOnce!TasksOf
<1>11. /\ {u \in Tasks : tasks'[u].open} = {u \in Tasks : tasks[u].open} \union {t}
       /\ {u \in Tasks : tasks'[u].by # 0} = {u \in Tasks : tasks[u].by # 0}
       /\ [u \in Tasks |-> tasks'[u].case] = [[u \in Tasks |-> tasks[u].case] EXCEPT ![t] = c]
  BY <1>5, <1>6
<1>12. AtOnce!CreateTask(t, c)
  BY <1>1, <1>4, <1>9, <1>10, <1>11 DEF AtOnce!CreateTask
<1> QED  BY <1>8, <1>12
LEMMA BeginKnows ==
  ASSUME AtomicInv, ArchiveInv', NEW w \in Clerks,
         \/ ArchiveClientBegin(w) \/ RestoreClientBegin(w) \/ EditClientRead(w)
         \/ \E c \in Cases : \/ ArchiveCaseBegin(w, c) \/ RestoreCaseBegin(w, c)
                             \/ CreateCaseBegin(w, c) \/ AutoTaskBegin(w, c)
  PROVE  AtomicInv' /\ UNCHANGED <<client, cases, tasks>>
<1> USE DEF AtomicInv, ArchiveInv
<1>1. CASE ArchiveClientBegin(w)
  <2> DEFINE x == [NoTxn EXCEPT !.op = "archive_client", !.holdsClient = TRUE, !.todo = ActiveCases]
  <2>1. x \in Txn /\ x.op = "archive_client" /\ x.done = {} /\ x.suspends = {} /\ x.todo = ActiveCases
    BY DEF NoTxn, Txn, Op, ActiveCases
  <2>2. txn' = [txn EXCEPT ![w] = x] /\ UNCHANGED <<client, cases, tasks>> /\ ~client.archived /\ client.open = 0
    BY <1>1 DEF ArchiveClientBegin
  <2> HIDE DEF x
  <2>3. Knows(x)
    BY <2>1, <2>2 DEF Knows
  <2> QED  BY <2>1, <2>2, <2>3, KnowsMore
<1>2. CASE RestoreClientBegin(w)
  <2> DEFINE x == [NoTxn EXCEPT !.op = "restore_client", !.holdsClient = TRUE, !.todo = CasesOfBatch]
  <2>1. x \in Txn /\ x.op = "restore_client"
    BY DEF NoTxn, Txn, Op, CasesOfBatch
  <2>2. txn' = [txn EXCEPT ![w] = x] /\ UNCHANGED <<client, cases, tasks>> /\ client.archived /\ client.open # 0
    BY <1>2 DEF RestoreClientBegin
  <2> HIDE DEF x
  <2>3. Knows(x)
    BY <2>1, <2>2 DEF Knows
  <2> QED  BY <2>1, <2>2, <2>3, KnowsMore
<1>3. CASE EditClientRead(w)
  <2> DEFINE x == [NoTxn EXCEPT !.op = "edit_client"]
  <2>1. x \in Txn /\ x.op = "edit_client" /\ x.done = {}
    BY DEF NoTxn, Txn, Op
  <2>2. txn' = [txn EXCEPT ![w] = x] /\ UNCHANGED <<client, cases, tasks>>
    BY <1>3 DEF EditClientRead
  <2> HIDE DEF x
  <2>3. Knows(x)
    BY <2>1 DEF Knows
  <2> QED  BY <2>1, <2>2, <2>3, KnowsMore
<1>4. ASSUME NEW c \in Cases, ArchiveCaseBegin(w, c) PROVE AtomicInv' /\ UNCHANGED <<client, cases, tasks>>
  <2> DEFINE x == [NoTxn EXCEPT !.op = "archive_case", !.done = {c}, !.suspends = Suspendable(c)]
  <2>1. x \in Txn /\ x.op = "archive_case" /\ x.done = {c} /\ x.suspends = Suspendable(c)
    BY DEF NoTxn, Txn, Op, Suspendable
  <2>2. txn' = [txn EXCEPT ![w] = x] /\ UNCHANGED <<client, cases, tasks>> /\ ~client.archived /\ c \in ActiveCases
    BY <1>4 DEF ArchiveCaseBegin
  <2> HIDE DEF x
  <2>3. Knows(x)
    BY <2>1, <2>2 DEF Knows, Suspendable
  <2> QED  BY <2>1, <2>2, <2>3, KnowsMore
<1>5. ASSUME NEW c \in Cases, RestoreCaseBegin(w, c) PROVE AtomicInv' /\ UNCHANGED <<client, cases, tasks>>
  <2> DEFINE x == [NoTxn EXCEPT !.op = "restore_case", !.done = {c}]
  <2>1. x \in Txn /\ x.op = "restore_case" /\ x.done = {c}
    BY DEF NoTxn, Txn, Op
  <2>2. txn' = [txn EXCEPT ![w] = x] /\ UNCHANGED <<client, cases, tasks>> /\ cases[c].archived
    BY <1>5 DEF RestoreCaseBegin
  <2> HIDE DEF x
  <2>3. Knows(x)
    BY <2>1, <2>2 DEF Knows
  <2> QED  BY <2>1, <2>2, <2>3, KnowsMore
<1>6. ASSUME NEW c \in Cases, CreateCaseBegin(w, c) PROVE AtomicInv' /\ UNCHANGED <<client, cases, tasks>>
  <2> DEFINE x == [NoTxn EXCEPT !.op = "create_case", !.done = {c}]
  <2>1. x \in Txn /\ x.op = "create_case" /\ x.done = {c}
    BY DEF NoTxn, Txn, Op
  <2>2. txn' = [txn EXCEPT ![w] = x] /\ UNCHANGED <<client, cases, tasks>> /\ ~cases[c].exists
        /\ \A v \in Clerks : txn[v].op = "create_case" => c \notin txn[v].done
    BY <1>6 DEF CreateCaseBegin
  <2> HIDE DEF x
  <2>3. Knows(x)
    BY <2>1, <2>2 DEF Knows
  <2>4. \A v \in Clerks \ {w} : txn[v].op = "create_case" => txn[v].done # x.done
    BY <2>1, <2>2
  <2> QED  BY <2>1, <2>2, <2>3, <2>4, KnowsMore
<1>7. ASSUME NEW c \in Cases, AutoTaskBegin(w, c) PROVE AtomicInv' /\ UNCHANGED <<client, cases, tasks>>
  <2> DEFINE x == [NoTxn EXCEPT !.op = "auto_task", !.holdsClient = TRUE, !.done = {c}]
  <2>1. x \in Txn /\ x.op = "auto_task" /\ x.done = {c} /\ x.holdsClient
    BY DEF NoTxn, Txn, Op
  <2>2. txn' = [txn EXCEPT ![w] = x] /\ UNCHANGED <<client, cases, tasks>> /\ cases[c].exists
        /\ \A t \in Tasks : ~(tasks[t].case = c /\ tasks[t].open)
    BY <1>7 DEF AutoTaskBegin
  <2> HIDE DEF x
  <2>3. Knows(x)
    BY <2>1, <2>2 DEF Knows
  <2> QED  BY <2>1, <2>2, <2>3, KnowsMore
<1> QED  BY <1>1, <1>2, <1>3, <1>4, <1>5, <1>6, <1>7

LEMMA RolledBackKnows ==
  ASSUME AtomicInv, ArchiveInv', NEW w \in Clerks, txn' = [txn EXCEPT ![w] = NoTxn], UNCHANGED <<client, cases, tasks>>
  PROVE  AtomicInv'
<1>1. Knows(NoTxn)
  BY NoTxnType DEF Knows
<1> QED  BY <1>1, NoTxnType, KnowsMore

LEMMA NextCaseKnows ==
  ASSUME AtomicInv, ArchiveInv', NEW w \in Clerks, ArchiveNext(w) \/ RestoreNext(w)
  PROVE  AtomicInv' /\ UNCHANGED <<client, cases, tasks>>
<1> USE DEF AtomicInv, ArchiveInv
<1> DEFINE old == txn[w]
           c == First(old.todo)
<1>1. /\ old \in Txn /\ old.todo \in SUBSET Cases /\ old.todo # {} /\ Knows(old)
      /\ old.op \in {"archive_client", "restore_client"}
      /\ UNCHANGED <<client, cases, tasks>>
  BY DEF ArchiveNext, RestoreNext, ArchiveTypeOK, Txn
<1>2. c \in old.todo /\ c \in Cases
  BY <1>1, FirstIsIn
<1>3. CASE txn' = [txn EXCEPT ![w] = NoTxn]
  BY <1>1, <1>3, RolledBackKnows
<1>4. CASE old.op = "archive_client" /\ txn' # [txn EXCEPT ![w] = NoTxn]
  <2> DEFINE x == [old EXCEPT !.todo = @ \ {c}, !.done = @ \union {c}, !.suspends = @ \union Suspendable(c)]
  <2>1. x \in Txn /\ x.op = "archive_client" /\ x.done = old.done \union {c} /\ x.todo = old.todo \ {c}
        /\ x.suspends = old.suspends \union Suspendable(c)
    BY <1>1, <1>2, <1>4 DEF Txn, Suspendable
  <2>2. txn' = [txn EXCEPT ![w] = x]
    BY <1>4 DEF ArchiveNext, RestoreNext, ArchiveTypeOK
  <2> HIDE DEF x, c
  <2>3. x.done \union x.todo = ActiveCases /\ ~client.archived /\ client.open = 0
    BY <1>1, <1>2, <1>4, <2>1 DEF Knows
  <2>4. old.suspends = {t \in Tasks : tasks[t].case \in old.done /\ tasks[t].open /\ tasks[t].by = 0}
    BY <1>1, <1>4 DEF Knows
  <2>5. x.suspends = {t \in Tasks : tasks[t].case \in x.done /\ tasks[t].open /\ tasks[t].by = 0}
    BY <2>1, <2>4 DEF Suspendable
  <2>6. Knows(x)
    BY <2>1, <2>3, <2>5 DEF Knows
  <2> QED  BY <1>1, <2>1, <2>2, <2>6, KnowsMore
<1>5. CASE old.op = "restore_client" /\ txn' # [txn EXCEPT ![w] = NoTxn]
  <2> DEFINE x == [old EXCEPT !.todo = @ \ {c}, !.done = @ \union {c}]
  <2>1. x \in Txn /\ x.op = "restore_client"
    BY <1>1, <1>2, <1>5 DEF Txn
  <2>2. txn' = [txn EXCEPT ![w] = x]
    BY <1>5 DEF ArchiveNext, RestoreNext, ArchiveTypeOK
  <2> HIDE DEF x, c
  <2>3. Knows(x)
    BY <1>1, <1>5, <2>1 DEF Knows
  <2> QED  BY <1>1, <2>1, <2>2, <2>3, KnowsMore
<1> QED  BY <1>1, <1>3, <1>4, <1>5

LEMMA CompleteTaskAtOnce ==
  ASSUME AtomicInv, ArchiveInv', NEW t \in Tasks, CompleteTask(t)
  PROVE  AtomicInv' /\ AtOnce!CompleteTask(t)
<1> USE DEF AtomicInv, ArchiveInv
<1>1. /\ UNCHANGED <<client, cases, txn>> /\ tasks[t].open
      /\ tasks'[t].open = FALSE /\ tasks'[t].case = tasks[t].case /\ tasks'[t].by = tasks[t].by
      /\ \A u \in Tasks \ {t} : tasks'[u] = tasks[u]
      /\ \A w \in Clerks : t \notin txn[w].suspends
  BY DEF CompleteTask, ArchiveTypeOK, Task
<1>2. ASSUME NEW w \in Clerks PROVE Knows(txn[w])'
  <2> PICK x \in Txn : x = txn[w]
    BY DEF ArchiveTypeOK
  <2>1. txn'[w] = x /\ Knows(x) /\ t \notin x.suspends
    BY <1>1
  <2>2. x.op \in {"archive_client", "archive_case"} =>
          x.suspends = {u \in Tasks : tasks'[u].case \in x.done /\ tasks'[u].open /\ tasks'[u].by = 0}
    <3> SUFFICES ASSUME x.op \in {"archive_client", "archive_case"}
                 PROVE  x.suspends = {u \in Tasks : tasks'[u].case \in x.done /\ tasks'[u].open /\ tasks'[u].by = 0}
      OBVIOUS
    <3>1. x.suspends = {u \in Tasks : tasks[u].case \in x.done /\ tasks[u].open /\ tasks[u].by = 0}
      BY <2>1 DEF Knows
    <3> QED  BY <1>1, <2>1, <3>1
  <2>3. \A c : (\A u \in Tasks : ~(tasks[u].case = c /\ tasks[u].open))
                  => \A u \in Tasks : ~(tasks'[u].case = c /\ tasks'[u].open)
    BY <1>1
  <2> QED  BY <1>1, <2>1, <2>2, <2>3 DEF Knows, ActiveCases
<1>3. BatchesAreTheClients' /\ NewCasesDiffer'
  BY <1>1 DEF BatchesAreTheClients, NewCasesDiffer
<1>4. AtOnce!CompleteTask(t)
  <2>1. /\ {u \in Tasks : tasks'[u].open} = {u \in Tasks : tasks[u].open} \ {t}
        /\ {u \in Tasks : tasks'[u].by # 0} = {u \in Tasks : tasks[u].by # 0}
        /\ [u \in Tasks |-> tasks'[u].case] = [u \in Tasks |-> tasks[u].case]
    BY <1>1
  <2> QED  BY <1>1, <2>1 DEF AtOnce!CompleteTask, PlaceOf
<1> QED  BY <1>2, <1>3, <1>4

LEMMA AtomicStep ==
  ASSUME AtomicInv, [ArchiveNextStep]_archiveVars
  PROVE  AtomicInv' /\ [AtOnce!Next]_(AtOnce!vars)
<1>1. ArchiveInv'
  BY ArchiveStep DEF AtomicInv
<1>2. UNCHANGED <<client, cases, tasks>> => UNCHANGED AtOnce!vars
  BY DEF AtOnce!vars, PlaceOf
<1>3. CASE UNCHANGED archiveVars
  BY <1>1, <1>2, <1>3 DEF archiveVars, AtomicInv, Knows, ActiveCases, BatchesAreTheClients, NewCasesDiffer
<1>4. ASSUME NEW w \in Clerks, DeadlockVictim(w) PROVE AtomicInv' /\ UNCHANGED <<client, cases, tasks>>
  BY <1>1, <1>4, RolledBackKnows DEF DeadlockVictim
<1>5. ASSUME NEW w \in Clerks,
             \/ ArchiveClientBegin(w) \/ RestoreClientBegin(w) \/ EditClientRead(w)
             \/ \E c \in Cases : \/ ArchiveCaseBegin(w, c) \/ RestoreCaseBegin(w, c)
                                 \/ CreateCaseBegin(w, c) \/ AutoTaskBegin(w, c)
      PROVE  AtomicInv' /\ UNCHANGED <<client, cases, tasks>>
  BY <1>1, <1>5, BeginKnows
<1>6. ASSUME NEW w \in Clerks, Continue(w) PROVE AtomicInv' /\ (AtOnce!Next \/ UNCHANGED <<client, cases, tasks>>)
  BY <1>1, <1>4, <1>6, NextCaseKnows, ArchiveClientAtOnce, RestoreClientAtOnce, ArchiveCaseAtOnce, RestoreCaseAtOnce,
     CreateCaseAtOnce, EditClientAtOnce, AutoTaskAtOnce DEF Continue, AtOnce!Next
<1>7. ASSUME NEW t \in Tasks, CompleteTask(t) PROVE AtomicInv' /\ AtOnce!Next
  BY <1>1, <1>7, CompleteTaskAtOnce DEF AtOnce!Next
<1> QED  BY <1>2, <1>3, <1>5, <1>6, <1>7 DEF ArchiveNextStep

LEMMA AtomicInvHolds == ArchiveSpec => []AtomicInv
  BY AtomicInitInv, AtomicStep, PTL DEF ArchiveSpec

(* However many clerks archive, restore, create and edit at the same time,   *)
(* and in whatever order they take the locks, what comes of it could have    *)
(* come of the same operations done one after another, each at once: nobody  *)
(* writes by a list of cases or of tasks that is out of date by then         *)
(* (services/archive.py:29-248).  A case that is made for or restored to a   *)
(* client who was put away in the meantime, and an old form saved over such  *)
(* a client, are steps of that order too.                                    *)
THEOREM ArchivesAtOnce == ArchiveSpec => ImplementsAtomicArchive
<1>1. ArchiveInit => AtOnce!Init
  <2> SUFFICES ASSUME ArchiveInit PROVE AtOnce!Init
    OBVIOUS
  <2>1. client.archived = FALSE /\ client.open = 0
    BY DEF ArchiveInit
  <2>2. \A c \in Cases : PlaceOf(c) = IF c = 1 THEN "active" ELSE "nowhere"
    BY DEF ArchiveInit, PlaceOf
  <2>3. \A t \in Tasks : tasks[t].case = 0 /\ tasks[t].open = FALSE /\ tasks[t].by = 0
    BY DEF ArchiveInit
  <2> QED  BY <2>1, <2>2, <2>3 DEF AtOnce!Init
<1>2. AtomicInv /\ [ArchiveNextStep]_archiveVars => [AtOnce!Next]_(AtOnce!vars)
  BY AtomicStep
<1> QED  BY <1>1, <1>2, AtomicInvHolds, PTL DEF ArchiveSpec, ImplementsAtomicArchive, AtOnce!Spec

-----------------------------------------------------------------------------
(* The stage of a case and its dates (CaseStages).                           *)

(* A desk shows a version that has been, and an older one when another form  *)
(* was saved since.                                                          *)
VersionsOnDesks ==
    \A s \in Staff :
        desk[s].step # "idle" =>
            /\ desk[s].shown.version <= row.version
            /\ desk[s].overtaken => desk[s].shown.version < row.version

(* What a form was checked against holds until something else changes it.    *)
PostedChecksHold ==
    \A s \in Staff :
        desk[s].step = "posted" /\ ~desk[s].stale =>
            TransitionAllowed(desk[s].shown, row.stage, desk[s].shown.stage)

StagesInv == StagesTypeOK /\ VersionsOnDesks /\ PostedChecksHold /\ FormsNeverOverwriteForms

LEMMA NeedsAreDates == \A stage \in Stages : Needs(stage) \in SUBSET Dates
  BY DEF Stages, Needs, Dates

LEMMA EmptyDeskType == NewRow \in Row /\ EmptyDesk \in Desk
<1>1. 1 \in 1..MaxSaves + 1
  BY StagesAssumption
<1>2. NewRow \in Row
  BY <1>1 DEF NewRow, Row, Stages
<1> QED  BY <1>2 DEF EmptyDesk, Desk, Step

LEMMA StagesInitInv == StagesInit => StagesInv
<1> SUFFICES ASSUME StagesInit PROVE StagesInv
  OBVIOUS
<1>1. written \in Written
  BY StagesAssumption DEF StagesInit, Written
<1>2. StagesTypeOK
  BY <1>1, EmptyDeskType DEF StagesInit, StagesTypeOK
<1> QED  BY <1>2 DEF StagesInit, StagesInv, VersionsOnDesks, PostedChecksHold, FormsNeverOverwriteForms,
                     EmptyDesk

LEMMA LoadType ==
  ASSUME StagesTypeOK, NEW s \in Staff, NEW step \in Step, Load(s, step)
  PROVE  /\ desk' \in [Staff -> Desk]
         /\ desk'[s].step = step /\ desk'[s].shown = row /\ desk'[s].overtaken = FALSE
         /\ \A d \in Staff \ {s} : desk'[d] = desk[d]
<1> DEFINE e == [EmptyDesk EXCEPT !.step = step, !.shown = row]
<1>1. EmptyDesk.overtaken = FALSE
  BY DEF EmptyDesk
<1>2. e \in Desk /\ e.step = step /\ e.shown = row /\ e.overtaken = FALSE
  BY <1>1, EmptyDeskType DEF Desk, StagesTypeOK
<1>3. desk' = [desk EXCEPT ![s] = e]
  BY DEF Load
<1> HIDE DEF e
<1> QED  BY <1>2, <1>3 DEF StagesTypeOK

LEMMA TypedRows ==
  ASSUME NEW shown \in Row, NEW next \in Typed(shown)
  PROVE  next \in Row /\ next.version = shown.version
<1>1. CASE next \in {[shown EXCEPT !.stage = stage] : stage \in Stages}
  BY <1>1 DEF Row
<1>2. ASSUME NEW stage \in Stages, next = [shown EXCEPT !.stage = stage, !.dates = @ \union Needs(stage)]
      PROVE  next \in Row /\ next.version = shown.version
  BY <1>2, NeedsAreDates DEF Row
<1>3. CASE next \in {[shown EXCEPT !.dates = @ \ {d}] : d \in Dates}
  BY <1>3 DEF Row
<1> QED  BY <1>1, <1>2, <1>3 DEF Typed

(* The desks after a write: the author's is empty, what was posted is stale. *)
LEMMA OutdatedDesks ==
  ASSUME NEW desks \in [Staff -> Desk], NEW s \in Staff
  PROVE  /\ Outdated(desks, s) \in [Staff -> Desk]
         /\ Outdated(desks, s)[s] = EmptyDesk
         /\ \A d \in Staff \ {s} :
              /\ Outdated(desks, s)[d].step = desks[d].step
              /\ Outdated(desks, s)[d].shown = desks[d].shown
              /\ Outdated(desks, s)[d].overtaken = desks[d].overtaken
              /\ desks[d].step = "posted" => Outdated(desks, s)[d].stale
<1>1. \A d \in Staff : desks[d] \in Desk
  OBVIOUS
<1> QED  BY <1>1, EmptyDeskType DEF Outdated, Desk

LEMMA LoadKeeps ==
  ASSUME StagesInv, NEW s \in Staff, NEW step \in Step \ {"posted"}, Load(s, step),
         UNCHANGED <<row, owes, complete, written>>
  PROVE  StagesInv'
<1> USE DEF StagesInv
<1>1. StagesTypeOK'
  BY LoadType DEF StagesTypeOK
<1>2. VersionsOnDesks'
  <2> SUFFICES ASSUME NEW d \in Staff, desk'[d].step # "idle"
               PROVE  /\ desk'[d].shown.version <= row.version
                      /\ desk'[d].overtaken => desk'[d].shown.version < row.version
    BY DEF VersionsOnDesks
  <2>1. row.version <= row.version
    BY StagesAssumption DEF StagesTypeOK, Row
  <2>2. CASE d = s
    BY <2>1, <2>2, LoadType
  <2>3. CASE d # s
    BY <2>3, LoadType DEF VersionsOnDesks
  <2> QED  BY <2>2, <2>3
<1>3. PostedChecksHold'
  BY LoadType DEF PostedChecksHold, TransitionAllowed
<1> QED  BY <1>1, <1>2, <1>3 DEF FormsNeverOverwriteForms

LEMMA LeaveKeeps ==
  ASSUME StagesInv, NEW s \in Staff, Leave(s), UNCHANGED <<row, owes, complete, written>>
  PROVE  StagesInv'
<1> USE DEF StagesInv
<1>1. /\ desk' \in [Staff -> Desk] /\ desk'[s].step = "idle"
      /\ \A d \in Staff \ {s} : desk'[d] = desk[d]
  BY EmptyDeskType DEF Leave, StagesTypeOK, EmptyDesk
<1> QED  BY <1>1 DEF StagesTypeOK, VersionsOnDesks, PostedChecksHold, TransitionAllowed, FormsNeverOverwriteForms

LEMMA PostKeeps ==
  ASSUME StagesInv, NEW s \in Staff, NEW next \in Typed(desk[s].shown), PostForm(s, next)
  PROVE  StagesInv'
<1> USE DEF StagesInv
<1>1. desk[s] \in Desk /\ desk[s].shown \in Row
  BY DEF StagesTypeOK, Desk
<1>2. next \in Row /\ next.version = desk[s].shown.version
  BY <1>1, TypedRows
<1>3. /\ desk' \in [Staff -> Desk]
      /\ desk'[s].step = "posted" /\ desk'[s].shown = next
      /\ desk'[s].overtaken = desk[s].overtaken
      /\ \A d \in Staff \ {s} : desk'[d] = desk[d]
  BY <1>1, <1>2 DEF PostForm, StagesTypeOK, Desk, Step
<1>4. StagesTypeOK'
  BY <1>3 DEF PostForm, StagesTypeOK
<1>5. VersionsOnDesks'
  BY <1>2, <1>3 DEF PostForm, VersionsOnDesks
<1>6. PostedChecksHold'
  BY <1>3 DEF PostForm, PostedChecksHold, TransitionAllowed
<1> QED  BY <1>4, <1>5, <1>6 DEF PostForm, FormsNeverOverwriteForms

LEMMA SaveKeeps ==
  ASSUME StagesInv, NEW s \in Staff, SaveForm(s)
  PROVE  StagesInv'
<1> USE DEF StagesInv
<1> DEFINE passed == [d \in Staff |-> [desk[d] EXCEPT !.overtaken = desk[d].step \in {"form", "posted"}]]
<1>1. desk[s] \in Desk /\ desk[s].shown \in Row /\ row \in Row /\ written \in Written
  BY DEF StagesTypeOK, Desk
<1>2. row' \in Row /\ row'.version = row.version + 1
  <2> DEFINE dates == (desk[s].shown.dates \ {"decision"}) \union (row.dates \intersect {"decision"})
             version == row.version + 1
  <2>1. dates \in SUBSET Dates
    BY <1>1 DEF Row
  <2>2. version \in 1..MaxSaves + 1
    BY <1>1, StagesAssumption DEF SaveForm, Row
  <2>3. row' = [row EXCEPT !.stage = desk[s].shown.stage, !.dates = dates, !.version = version]
    BY <1>1 DEF SaveForm, FormColumns, Row
  <2> HIDE DEF dates, version
  <2>4. row' \in Row /\ row'.version = version
    BY <1>1, <2>1, <2>2, <2>3 DEF Row
  <2> QED  BY <2>4 DEF version
<1>3. passed \in [Staff -> Desk]
  <2> SUFFICES ASSUME NEW d \in Staff
               PROVE  [desk[d] EXCEPT !.overtaken = desk[d].step \in {"form", "posted"}] \in Desk
    OBVIOUS
  <2> DEFINE o == desk[d].step \in {"form", "posted"}
  <2>1. o \in BOOLEAN /\ desk[d] \in Desk
    BY DEF StagesTypeOK
  <2> HIDE DEF o
  <2>2. [desk[d] EXCEPT !.overtaken = o] \in Desk
    BY <2>1 DEF Desk
  <2> QED  BY <2>2 DEF o
<1>4. \A d \in Staff : /\ passed[d].step = desk[d].step /\ passed[d].shown = desk[d].shown
  BY DEF StagesTypeOK, Desk
<1>5. /\ desk' = Outdated(passed, s)
      /\ written' = [written EXCEPT !.by = "form", !.stale = desk[s].stale, !.overtaken = desk[s].overtaken]
  BY DEF SaveForm
<1> HIDE DEF passed
<1>6. /\ desk' \in [Staff -> Desk] /\ desk'[s].step = "idle"
      /\ \A d \in Staff \ {s} : /\ desk'[d].step = desk[d].step /\ desk'[d].shown = desk[d].shown
                                /\ desk[d].step = "posted" => desk'[d].stale
  BY <1>3, <1>4, <1>5, OutdatedDesks DEF EmptyDesk
<1>7. ~desk[s].overtaken
  BY <1>1 DEF SaveForm, VersionMatches, VersionsOnDesks, Row
<1>8. StagesTypeOK'
  BY <1>1, <1>2, <1>5, <1>6 DEF SaveForm, StagesTypeOK, Written, Desk
<1>9. VersionsOnDesks'
  BY <1>1, <1>2, <1>6 DEF VersionsOnDesks, StagesTypeOK, Desk, Row
<1>10. PostedChecksHold'
  BY <1>6 DEF PostedChecksHold
<1>11. FormsNeverOverwriteForms'
  BY <1>1, <1>5, <1>7 DEF FormsNeverOverwriteForms, Written
<1> QED  BY <1>8, <1>9, <1>10, <1>11

LEMMA WriteKeeps ==
  ASSUME StagesInv, NEW s \in Staff, NEW by \in {"review", "letter"}, NEW new \in Row,
         new.version = row.version, Write(s, by, new)
  PROVE  StagesInv'
<1> USE DEF StagesInv
<1>1. /\ desk' \in [Staff -> Desk] /\ desk'[s].step = "idle"
      /\ \A d \in Staff \ {s} :
            /\ desk'[d].step = desk[d].step /\ desk'[d].shown = desk[d].shown
            /\ desk'[d].overtaken = desk[d].overtaken
            /\ desk[d].step = "posted" => desk'[d].stale
  BY OutdatedDesks DEF Write, StagesTypeOK, EmptyDesk
<1>2. written' \in Written /\ written'.by # "form"
  BY StagesAssumption DEF Write, StagesTypeOK, Written
<1>3. StagesTypeOK'
  BY <1>1, <1>2 DEF Write, StagesTypeOK
<1>4. VersionsOnDesks'
  BY <1>1 DEF Write, VersionsOnDesks
<1>5. PostedChecksHold'
  BY <1>1 DEF PostedChecksHold
<1> QED  BY <1>2, <1>3, <1>4, <1>5 DEF FormsNeverOverwriteForms

LEMMA TransitionKeeps ==
  ASSUME StagesInv, NEW s \in Staff, NEW stage \in Stages, Transition(s, stage)
  PROVE  StagesInv'
<1>1. [row EXCEPT !.stage = stage] \in Row /\ [row EXCEPT !.stage = stage].version = row.version
  BY DEF StagesInv, StagesTypeOK, Row
<1> QED  BY <1>1, WriteKeeps DEF Transition

LEMMA MarksAreTransitions ==
  ASSUME NEW s \in Staff,
         MarkSubmitted(s) \/ MarkFingerprints(s) \/ MarkWaiting(s) \/ MarkDecision(s)
  PROVE  \E stage \in Stages : Transition(s, stage)
  BY DEF MarkSubmitted, MarkFingerprints, MarkWaiting, MarkDecision, Stages

LEMMA LetterKeeps ==
  ASSUME StagesInv, NEW s \in Staff, NEW dates \in SUBSET {"fingerprints", "decision"}, NEW c \in BOOLEAN,
         ApplyLetter(s, dates, c)
  PROVE  StagesInv'
<1> DEFINE new == (dates \ desk[s].shown.dates)
                    \ (IF c /\ DecisionWritable(desk[s].shown) THEN {} ELSE {"decision"})
<1>1. [row EXCEPT !.dates = @ \union new] \in Row /\ [row EXCEPT !.dates = @ \union new].version = row.version
  BY DEF StagesInv, StagesTypeOK, Row, Dates
<1>2. Write(s, "letter", [row EXCEPT !.dates = @ \union new])
  BY DEF ApplyLetter
<1> HIDE DEF new
<1> QED  BY <1>1, <1>2, WriteKeeps

LEMMA ChecksKeep ==
  ASSUME StagesInv, ChecksOutdated, owes' \in BOOLEAN, complete' \in BOOLEAN, UNCHANGED <<row, written>>
  PROVE  StagesInv'
<1> USE DEF StagesInv
<1>1. /\ desk' \in [Staff -> Desk]
      /\ \A d \in Staff : /\ desk'[d].step = desk[d].step /\ desk'[d].shown = desk[d].shown
                          /\ desk'[d].overtaken = desk[d].overtaken
                          /\ desk[d].step = "posted" => desk'[d].stale
  BY DEF ChecksOutdated, StagesTypeOK, Desk
<1> QED  BY <1>1 DEF StagesTypeOK, VersionsOnDesks, PostedChecksHold, FormsNeverOverwriteForms

LEMMA StagesStep ==
  ASSUME StagesInv, [StagesNext]_stagesVars
  PROVE  StagesInv'
<1>1. CASE UNCHANGED stagesVars
  BY <1>1 DEF stagesVars, StagesInv, StagesTypeOK, VersionsOnDesks, PostedChecksHold, TransitionAllowed,
              FormsNeverOverwriteForms
<1>2. ASSUME NEW s \in Staff, OpenForm(s) \/ LoadReview(s) \/ LoadLetter(s) PROVE StagesInv'
  BY <1>2, LoadKeeps DEF OpenForm, LoadReview, LoadLetter, Step
<1>3. ASSUME NEW s \in Staff, RefuseForm(s) \/ EndReview(s) PROVE StagesInv'
  BY <1>3, LeaveKeeps DEF RefuseForm, EndReview
<1>4. ASSUME NEW s \in Staff, MarkSubmitted(s) \/ MarkFingerprints(s) \/ MarkWaiting(s) \/ MarkDecision(s)
      PROVE  StagesInv'
  BY <1>4, MarksAreTransitions, TransitionKeeps
<1>5. CASE PaymentsChange \/ DocumentsChange
  BY <1>5, ChecksKeep DEF PaymentsChange, DocumentsChange, StagesInv, StagesTypeOK
<1> QED  BY <1>1, <1>2, <1>3, <1>4, <1>5, PostKeeps, SaveKeeps, LetterKeeps DEF StagesNext

LEMMA StagesInvHolds == StagesSpec => []StagesInv
  BY StagesInitInv, StagesStep, PTL DEF StagesSpec

(* For any number of staff: a form is never saved over another form that was *)
(* saved after it was opened, whatever reviews and letters change between    *)
(* them (locking.py:76-108).                                                 *)
THEOREM FormsAreNotLost == StagesSpec => []FormsNeverOverwriteForms
<1>1. StagesInv => FormsNeverOverwriteForms
  BY DEF StagesInv
<1> QED  BY <1>1, StagesInvHolds, PTL

-----------------------------------------------------------------------------
(* What a step forward leaves the case with. *)
ForwardStep ==
    Position[row'.stage] > Position[row.stage] =>
      \/ written'.stale
      \/ /\ Needs(row'.stage) \ {"decision"} \subseteq row'.dates
         /\ written'.by = "review" => Needs(row'.stage) \subseteq row'.dates
         /\ row'.stage = "closed" => ~owes
         /\ row'.stage = "application_submitted" => complete

LEMMA PositionsAreOrdered == \A a \in Stages : Position[a] \in Nat
  BY DEF Stages, Position

LEMMA SaveStepsForward ==
  ASSUME StagesInv, NEW s \in Staff, SaveForm(s)
  PROVE  ForwardStep
<1> SUFFICES ASSUME Position[row'.stage] > Position[row.stage], ~written'.stale
             PROVE  /\ Needs(row'.stage) \ {"decision"} \subseteq row'.dates
                    /\ written'.by # "review"
                    /\ row'.stage = "closed" => ~owes
                    /\ row'.stage = "application_submitted" => complete
  BY DEF ForwardStep
<1> DEFINE shown == desk[s].shown
<1>1. desk[s] \in Desk /\ shown \in Row /\ row \in Row /\ written \in Written
  BY DEF StagesInv, StagesTypeOK, Desk
<1>2. written'.by = "form" /\ written'.stale = desk[s].stale
  BY <1>1 DEF SaveForm, Written
<1>3. row'.stage = shown.stage /\ shown.dates \ {"decision"} \subseteq row'.dates
  <2> DEFINE dates == (shown.dates \ {"decision"}) \union (row.dates \intersect {"decision"})
             version == row.version + 1
  <2>1. row' = [row EXCEPT !.stage = shown.stage, !.dates = dates, !.version = version]
    BY <1>1 DEF SaveForm, FormColumns, Row
  <2>2. row'.stage = shown.stage /\ row'.dates = dates
    <3> HIDE DEF dates, version, shown
    <3> QED  BY <1>1, <2>1 DEF Row
  <2> QED  BY <2>2
<1>4. TransitionAllowed(shown, row.stage, shown.stage)
  BY <1>2 DEF StagesInv, PostedChecksHold, SaveForm
<1>5. ~(Position[shown.stage] <= Position[row.stage])
  BY <1>1, <1>3, PositionsAreOrdered DEF Row
<1> HIDE DEF shown
<1> QED  BY <1>2, <1>3, <1>4, <1>5 DEF TransitionAllowed

LEMMA TransitionStepsForward ==
  ASSUME StagesInv, NEW s \in Staff, NEW stage \in Stages, Transition(s, stage)
  PROVE  ForwardStep
<1> SUFFICES ASSUME Position[row'.stage] > Position[row.stage], ~written'.stale
             PROVE  /\ Needs(row'.stage) \subseteq row'.dates
                    /\ row'.stage = "closed" => ~owes
                    /\ row'.stage = "application_submitted" => complete
  BY DEF ForwardStep
<1>1. row \in Row
  BY DEF StagesInv, StagesTypeOK
<1>2. desk[s].shown = row
  BY DEF Transition, Write
<1>3. row'.stage = stage /\ row'.dates = row.dates
  BY <1>1 DEF Transition, Write, Row
<1>4. TransitionAllowed(row, row.stage, stage)
  BY <1>2 DEF Transition
<1>5. ~(Position[stage] <= Position[row.stage])
  BY <1>1, <1>3, PositionsAreOrdered DEF Row
<1> QED  BY <1>3, <1>4, <1>5 DEF TransitionAllowed

LEMMA SameStage ==
  ASSUME StagesInv, row'.stage = row.stage
  PROVE  ForwardStep
<1>1. ~(Position[row.stage] > Position[row.stage])
  BY PositionsAreOrdered DEF StagesInv, StagesTypeOK, Row
<1> QED  BY <1>1 DEF ForwardStep

LEMMA StepsForward ==
  ASSUME StagesInv, [StagesNext]_stagesVars
  PROVE  ForwardStep
<1>1. CASE UNCHANGED stagesVars
  BY <1>1, SameStage DEF stagesVars
<1>2. ASSUME NEW s \in Staff,
             \/ OpenForm(s) \/ LoadReview(s) \/ LoadLetter(s) \/ RefuseForm(s) \/ EndReview(s)
             \/ \E next \in Typed(desk[s].shown) : PostForm(s, next)
      PROVE  ForwardStep
  BY <1>2, SameStage DEF OpenForm, LoadReview, LoadLetter, RefuseForm, EndReview, PostForm
<1>3. ASSUME NEW s \in Staff, MarkSubmitted(s) \/ MarkFingerprints(s) \/ MarkWaiting(s) \/ MarkDecision(s)
      PROVE  ForwardStep
  BY <1>3, MarksAreTransitions, TransitionStepsForward
<1>4. ASSUME NEW s \in Staff, NEW dates \in SUBSET {"fingerprints", "decision"}, NEW c \in BOOLEAN,
             ApplyLetter(s, dates, c)
      PROVE  ForwardStep
  <2>1. row'.stage = row.stage
    BY <1>4 DEF ApplyLetter, Write, StagesInv, StagesTypeOK, Row
  <2> QED  BY <2>1, SameStage
<1>5. CASE PaymentsChange \/ DocumentsChange
  BY <1>5, SameStage DEF PaymentsChange, DocumentsChange
<1> QED  BY <1>1, <1>2, <1>3, <1>4, <1>5, SaveStepsForward DEF StagesNext

(* A forward step leaves the case with the date its stage asks for, no debt  *)
(* on a closed case and every document on a submitted one, unless its author *)
(* worked on what had changed (workflow.py:36-96).                           *)
THEOREM StepsForwardAreEarned == StagesSpec => ForwardStepsHaveTheirDates
<1>1. StagesInv /\ [StagesNext]_stagesVars => [ForwardStep]_stagesVars
  BY StepsForward
<1>2. StagesSpec => [][ForwardStep]_stagesVars
  BY <1>1, StagesInvHolds, PTL DEF StagesSpec
<1> QED  BY <1>2 DEF ForwardStepsHaveTheirDates, ForwardStep

-----------------------------------------------------------------------------
(* The employer of a case (Employers).                                       *)

ReaderState == {Idle} \union Reading \union Writing \union Proposing

(* What a reader is about to insert had no undecided candidate when it was   *)
(* read, and has none yet, unless somebody else has the same one.            *)
ProposalsAreNew ==
    \A r \in Readers :
        reader[r].at = "proposing" /\ reader[r].employer \notin twins => UnresolvedOf(reader[r].employer) = {}

OneUndecided ==
    \A e \in Companies : e \notin twins => \A s, t \in UnresolvedOf(e) : s = t

(* A reader about to end the active row has seen another company in it, and  *)
(* the row is still the one it has seen.                                     *)
EndersSawAnother ==
    \A r \in Readers : reader[r].at = "ending" => assigned \notin {NoCompany, reader[r].case}

HistoryFollows == assigned # company => drift

EmployersInv == EmployersTypeOK /\ ProposalsAreNew /\ OneUndecided /\ EndersSawAnother /\ HistoryFollows

LEMMA ReaderShape ==
  ASSUME EmployersTypeOK, NEW r \in Readers
  PROVE  /\ reader[r] \in ReaderState
         /\ reader[r].at = "loaded" => reader[r] \in Reading /\ reader[r].case \in Companies \union {NoCompany}
         /\ reader[r].at \in {"ending", "creating"} => reader[r] \in Writing /\ reader[r].case \in Companies
         /\ reader[r].at = "proposing" => reader[r].source \in Sources /\ reader[r].employer \in Companies
  BY DEF EmployersTypeOK, ReaderState, Idle, Reading, Writing, Proposing

LEMMA EmployersInitInv == EmployersInit => EmployersInv
<1> SUFFICES ASSUME EmployersInit PROVE EmployersInv
  OBVIOUS
<1>1. \A r \in Readers : reader[r] = Idle /\ reader[r].at = "idle"
  BY DEF EmployersInit, Idle
<1>2. EmployersTypeOK
  BY DEF EmployersInit, EmployersTypeOK
<1>3. \A e \in Companies : UnresolvedOf(e) = {}
  BY DEF EmployersInit, UnresolvedOf, Unresolved
<1> QED
  BY <1>1, <1>2, <1>3 DEF EmployersInit, EmployersInv, ProposalsAreNew, OneUndecided, EndersSawAnother, HistoryFollows

(* Nobody is about to end a row that has been ended; nothing else changes.   *)
LEMMA RowEndedShape ==
  ASSUME EmployersTypeOK
  PROVE  /\ RowEnded(reader) \in [Readers -> ReaderState]
         /\ \A r \in Readers :
               /\ RowEnded(reader)[r].at # "ending"
               /\ RowEnded(reader)[r].at = "proposing" => RowEnded(reader)[r] = reader[r]
<1> DEFINE then(r) == [reader[r] EXCEPT !.at = "creating"]
<1>1. ASSUME NEW r \in Readers, reader[r].at = "ending" PROVE then(r) \in Writing /\ then(r).at = "creating"
  BY <1>1, ReaderShape DEF Writing
<1> HIDE DEF then
<1>2. RowEnded(reader) = [r \in Readers |-> IF reader[r].at = "ending" THEN then(r) ELSE reader[r]]
  BY DEF RowEnded, then
<1>3. ASSUME NEW r \in Readers PROVE RowEnded(reader)[r] \in ReaderState
  BY <1>1, <1>2, ReaderShape DEF ReaderState
<1> QED  BY <1>1, <1>2, <1>3

(* A reader takes its next step, the others stay or lose the row they were   *)
(* about to end.                                                             *)
LEMMA ReaderGoes ==
  ASSUME EmployersTypeOK, NEW r \in Readers, NEW x \in ReaderState,
         NEW others \in {reader, RowEnded(reader)}, reader' = [others EXCEPT ![r] = x]
  PROVE  /\ reader' \in [Readers -> ReaderState] /\ reader'[r] = x
         /\ \A q \in Readers \ {r} :
               /\ reader'[q].at = "ending" => others = reader /\ reader'[q] = reader[q]
               /\ reader'[q].at = "proposing" => reader'[q] = reader[q]
<1>1. reader \in [Readers -> ReaderState]
  BY DEF EmployersTypeOK, ReaderState
<1>2. others \in [Readers -> ReaderState]
  BY <1>1, RowEndedShape
<1>3. reader' \in [Readers -> ReaderState] /\ reader'[r] = x /\ \A q \in Readers \ {r} : reader'[q] = others[q]
  BY <1>2
<1> QED  BY <1>3, RowEndedShape

(* A step of a reader that leaves the proposals and the decisions alone.     *)
LEMMA HistoryStepKeeps ==
  ASSUME EmployersInv, NEW r \in Readers, NEW x \in ReaderState, x.at # "proposing",
         NEW others \in {reader, RowEnded(reader)}, reader' = [others EXCEPT ![r] = x],
         UNCHANGED <<company, standing, candidates, reviews, twins>>,
         assigned' \in Companies \union {NoCompany}, drift' \in BOOLEAN, HistoryFollows',
         UNCHANGED assigned \/ assigned = NoCompany \/ others = RowEnded(reader),
         x.at = "ending" => assigned' \notin {NoCompany, x.case}
  PROVE  EmployersInv'
<1> USE DEF EmployersInv
<1>1. /\ reader' \in [Readers -> ReaderState] /\ reader'[r] = x
      /\ \A q \in Readers \ {r} :
            /\ reader'[q].at = "ending" => others = reader /\ reader'[q] = reader[q]
            /\ reader'[q].at = "proposing" => reader'[q] = reader[q]
  BY ReaderGoes
<1>2. EmployersTypeOK'
  BY <1>1 DEF EmployersTypeOK, ReaderState
<1>3. \A e : UnresolvedOf(e)' = UnresolvedOf(e)
  BY DEF UnresolvedOf
<1>4. OneUndecided'
  BY <1>3 DEF OneUndecided
<1>5. ProposalsAreNew'
  BY <1>1, <1>3 DEF ProposalsAreNew
<1>6. EndersSawAnother'
  <2> SUFFICES ASSUME NEW q \in Readers, reader'[q].at = "ending"
               PROVE  assigned' \notin {NoCompany, reader'[q].case}
    BY DEF EndersSawAnother
  <2>1. CASE q = r
    BY <1>1, <2>1
  <2>2. CASE q # r
    <3>1. others = reader /\ reader'[q] = reader[q]
      BY <1>1, <2>2
    <3>2. assigned \notin {NoCompany, reader[q].case} /\ RowEnded(reader) # reader
      BY <3>1, RowEndedShape DEF EndersSawAnother
    <3> QED  BY <3>1, <3>2
  <2> QED  BY <2>1, <2>2
<1> QED  BY <1>2, <1>4, <1>5, <1>6

LEMMA IdleShape == Idle \in ReaderState /\ Idle.at = "idle"
  BY DEF Idle, ReaderState

LEMMA HistoryKeeps ==
  ASSUME EmployersInv, NEW r \in Readers, HistoryStep(r) \/ LoadCase(r) \/ Stops(r)
  PROVE  EmployersInv'
<1> USE DEF EmployersInv
<1>0. assigned \in Companies \union {NoCompany} /\ drift \in BOOLEAN /\ company \in Companies \union {NoCompany}
  BY DEF EmployersTypeOK
<1>1. CASE LoadCase(r)
  <2> DEFINE x == [at |-> "loaded", case |-> company]
  <2>1. x \in ReaderState /\ x.at = "loaded"
    BY <1>0 DEF ReaderState, Reading
  <2>2. reader' = [reader EXCEPT ![r] = x] /\ UNCHANGED <<company, assigned, standing, candidates, reviews, drift, twins>>
    BY <1>1 DEF LoadCase, Goes
  <2> HIDE DEF x
  <2> QED  BY <1>0, <2>1, <2>2, HistoryStepKeeps DEF HistoryFollows
<1>2. CASE ProposeKnown(r)
  <2> DEFINE c == reader[r].case
             x == IF assigned = c THEN Idle ELSE [at |-> IF assigned = NoCompany THEN "creating" ELSE "ending", case |-> c]
  <2>1. c \in Companies
    BY <1>2, ReaderShape DEF ProposeKnown, Loaded
  <2> HIDE DEF c
  <2>2. x \in ReaderState /\ x.at # "proposing" /\ (x.at = "ending" => assigned \notin {NoCompany, x.case})
    <3>1. CASE assigned = c
      BY <3>1, IdleShape
    <3>2. CASE assigned # c /\ assigned = NoCompany
      BY <2>1, <3>2 DEF ReaderState, Writing
    <3>3. CASE assigned # c /\ assigned # NoCompany
      BY <2>1, <3>3 DEF ReaderState, Writing
    <3> QED  BY <3>1, <3>2, <3>3
  <2>3. reader' = [reader EXCEPT ![r] = x] /\ UNCHANGED <<company, assigned, standing, candidates, reviews, drift, twins>>
    BY <1>2 DEF ProposeKnown, Goes, c
  <2> HIDE DEF x
  <2> QED  BY <1>0, <2>2, <2>3, HistoryStepKeeps DEF HistoryFollows
<1>3. CASE EndActive(r)
  <2> DEFINE x == [reader[r] EXCEPT !.at = "creating"]
  <2>1. reader[r].at = "ending" /\ reader[r] \in Writing
    BY <1>3, ReaderShape DEF EndActive
  <2>2. x \in Writing /\ x.at = "creating"
    BY <2>1 DEF Writing
  <2>3. reader' = RowEnded(reader) /\ RowEnded(reader)[r] = x
    BY <1>3, <2>1 DEF EndActive, RowEnded
  <2> HIDE DEF x
  <2>4. reader' = [RowEnded(reader) EXCEPT ![r] = x]
    BY <2>3, RowEndedShape
  <2>5. assigned' = NoCompany /\ drift' = (company # NoCompany /\ (drift \/ Overtaken(r)))
        /\ UNCHANGED <<company, standing, candidates, reviews, twins>>
    BY <1>3 DEF EndActive
  <2>6. HistoryFollows'
    <3>1. assigned # reader[r].case
      BY <2>1 DEF EndersSawAnother
    <3> QED  BY <2>5, <3>1 DEF HistoryFollows, Overtaken
  <2>7. drift' \in BOOLEAN
    BY <1>0, <2>5 DEF Overtaken
  <2>8. x \in ReaderState
    BY <2>2 DEF ReaderState
  <2> QED  BY <2>2, <2>4, <2>5, <2>6, <2>7, <2>8, HistoryStepKeeps
<1>4. CASE CreateAssignment(r)
  <2>1. reader' = [reader EXCEPT ![r] = Idle] /\ UNCHANGED <<company, standing, candidates, reviews, twins>>
    BY <1>4 DEF CreateAssignment, Goes
  <2>2. reader[r].case \in Companies
    BY <1>4, ReaderShape DEF CreateAssignment
  <2>3. \/ assigned = NoCompany /\ assigned' = reader[r].case /\ drift' = (reader[r].case # company)
        \/ UNCHANGED <<assigned, drift>>
    BY <1>4 DEF CreateAssignment, Overtaken
  <2>4. HistoryFollows' /\ assigned' \in Companies \union {NoCompany} /\ drift' \in BOOLEAN
    BY <1>0, <2>1, <2>2, <2>3 DEF HistoryFollows
  <2> QED  BY <2>1, <2>3, <2>4, IdleShape, HistoryStepKeeps
<1>5. CASE Stops(r)
  <2>1. reader' = [reader EXCEPT ![r] = Idle] /\ UNCHANGED <<company, assigned, standing, candidates, reviews, drift, twins>>
    BY <1>5 DEF Stops, Goes
  <2> QED  BY <1>0, <2>1, IdleShape, HistoryStepKeeps DEF HistoryFollows
<1> QED  BY <1>1, <1>2, <1>3, <1>4, <1>5 DEF HistoryStep

LEMMA ProposeReadKeeps ==
  ASSUME EmployersInv, NEW r \in Readers, NEW s \in Sources, NEW e \in Companies, ProposeRead(r, s, e)
  PROVE  EmployersInv'
<1> USE DEF EmployersInv
<1> DEFINE x == [at |-> "proposing", source |-> s, employer |-> e]
<1>1. x \in ReaderState /\ x.at = "proposing" /\ x.employer = e
  BY DEF ReaderState, Proposing
<1>2. /\ reader' = [reader EXCEPT ![r] = x] /\ UnresolvedOf(e) = {}
      /\ UNCHANGED <<company, assigned, standing, candidates, reviews, drift, twins>>
  BY DEF ProposeRead, Goes, Wanted
<1> HIDE DEF x
<1>3. /\ reader' \in [Readers -> ReaderState] /\ reader'[r] = x
      /\ \A q \in Readers \ {r} : reader'[q].at \in {"ending", "proposing"} => reader'[q] = reader[q]
  BY <1>1, <1>2, ReaderGoes
<1>4. EmployersTypeOK'
  BY <1>2, <1>3 DEF EmployersTypeOK, ReaderState
<1>5. \A f : UnresolvedOf(f)' = UnresolvedOf(f)
  BY <1>2 DEF UnresolvedOf
<1>6. OneUndecided' /\ HistoryFollows'
  BY <1>2, <1>5 DEF OneUndecided, HistoryFollows
<1>7. ProposalsAreNew'
  BY <1>1, <1>2, <1>3, <1>5 DEF ProposalsAreNew
<1>8. EndersSawAnother'
  BY <1>1, <1>2, <1>3 DEF EndersSawAnother
<1> QED  BY <1>4, <1>6, <1>7, <1>8

LEMMA ProposeInsertKeeps ==
  ASSUME EmployersInv, NEW r \in Readers, ProposeInsert(r)
  PROVE  EmployersInv'
<1> USE DEF EmployersInv
<1> DEFINE s == reader[r].source
           e == reader[r].employer
           others == IF assigned' = assigned THEN reader ELSE RowEnded(reader)
<1>0. reader[r].at = "proposing" /\ s \in Sources /\ e \in Companies
  BY ReaderShape DEF ProposeInsert
<1>1. /\ reader' = [others EXCEPT ![r] = Idle] /\ UNCHANGED <<company, standing>>
      /\ (company = e /\ assigned' = e /\ drift' = FALSE) \/ UNCHANGED <<assigned, drift>>
  BY DEF ProposeInsert
<1>2. \/ /\ candidates' = [candidates EXCEPT ![<<s, e>>] = "pending"] /\ reviews' = WithTask(s)
         /\ twins' = IF \E q \in Readers \ {r} : reader[q].at = "proposing" /\ reader[q].employer = e
                     THEN twins \union {e} ELSE twins
      \/ UNCHANGED <<candidates, reviews, twins>>
  BY DEF ProposeInsert
<1>3. /\ reader' \in [Readers -> ReaderState] /\ reader'[r] = Idle
      /\ \A q \in Readers \ {r} :
            /\ reader'[q].at = "ending" => others = reader /\ reader'[q] = reader[q]
            /\ reader'[q].at = "proposing" => reader'[q] = reader[q]
  BY <1>1, IdleShape, ReaderGoes
<1> HIDE DEF s, e
<1>4. EmployersTypeOK'
  <2>1. candidates' \in [Sources \X Companies -> Decisions \union {"absent", "pending"}]
    BY <1>0, <1>2 DEF EmployersTypeOK
  <2>2. reviews' \in SUBSET Sources /\ twins' \in SUBSET Companies
    BY <1>0, <1>2 DEF EmployersTypeOK, WithTask
  <2>3. assigned' \in Companies \union {NoCompany} /\ drift' \in BOOLEAN
    BY <1>0, <1>1 DEF EmployersTypeOK
  <2> QED  BY <1>1, <1>3, <2>1, <2>2, <2>3 DEF EmployersTypeOK, ReaderState
<1>5. HistoryFollows'
  BY <1>1 DEF HistoryFollows
<1>6. EndersSawAnother'
  <2> SUFFICES ASSUME NEW q \in Readers, reader'[q].at = "ending"
               PROVE  assigned' \notin {NoCompany, reader'[q].case}
    BY DEF EndersSawAnother
  <2>1. q # r
    BY <1>3, IdleShape
  <2>2. others = reader /\ reader'[q] = reader[q]
    BY <1>3, <2>1
  <2>3. RowEnded(reader) # reader /\ assigned \notin {NoCompany, reader[q].case}
    BY <2>2, RowEndedShape DEF EndersSawAnother
  <2>4. assigned' = assigned
    BY <2>2, <2>3
  <2> QED  BY <2>2, <2>3, <2>4
<1>7. \A f \in Companies : UnresolvedOf(f)' \subseteq UnresolvedOf(f) \union (IF f = e THEN {s} ELSE {})
  BY <1>0, <1>2 DEF UnresolvedOf, EmployersTypeOK
<1>8. twins \subseteq twins'
  BY <1>2
<1>9. e \in twins \/ UnresolvedOf(e) = {}
  BY <1>0 DEF ProposalsAreNew, e
<1>10. OneUndecided'
  <2> SUFFICES ASSUME NEW f \in Companies, f \notin twins',
                      NEW a \in UnresolvedOf(f)', NEW b \in UnresolvedOf(f)'
               PROVE  a = b
    BY DEF OneUndecided
  <2>1. f \notin twins
    BY <1>8
  <2>2. CASE f = e
    BY <1>7, <1>9, <2>1, <2>2
  <2>3. CASE f # e
    BY <1>7, <2>1, <2>3 DEF OneUndecided
  <2> QED  BY <2>2, <2>3
<1>11. ProposalsAreNew'
  <2> SUFFICES ASSUME NEW q \in Readers, reader'[q].at = "proposing", reader'[q].employer \notin twins'
               PROVE  (UnresolvedOf(reader[q].employer))' = {}
    BY DEF ProposalsAreNew
  <2>1. q # r /\ reader'[q] = reader[q]
    BY <1>3, IdleShape
  <2>2. reader[q].employer \in Companies /\ UnresolvedOf(reader[q].employer) = {}
    BY <1>8, <2>1, ReaderShape DEF ProposalsAreNew
  <2>3. CASE reader[q].employer # e
    BY <1>7, <2>1, <2>2, <2>3 DEF UnresolvedOf
  <2>4. CASE reader[q].employer = e
    <3>1. UNCHANGED candidates
      BY <1>2, <2>1, <2>4
    <3> QED  BY <2>1, <2>2, <3>1 DEF UnresolvedOf
  <2> QED  BY <2>3, <2>4
<1> QED  BY <1>4, <1>5, <1>6, <1>10, <1>11

LEMMA ReviewKeeps ==
  ASSUME EmployersInv, NEW s \in Sources, NEW e \in Companies, NEW d \in Offered, Review(s, e, d)
  PROVE  EmployersInv'
<1> USE DEF EmployersInv
<1>1. reader \in [Readers -> ReaderState]
  BY DEF EmployersTypeOK, ReaderState
<1>2. \/ company' = e /\ assigned' = e /\ drift' = FALSE /\ reader' = RowEnded(reader)
      \/ UNCHANGED <<company, assigned, drift, reader>>
  BY DEF Review
<1>3. reader' \in [Readers -> ReaderState] /\ \A r \in Readers : reader'[r].at = "proposing" => reader'[r] = reader[r]
  BY <1>1, <1>2, RowEndedShape
<1>4. EmployersTypeOK'
  <2>1. candidates' \in [Sources \X Companies -> Decisions \union {"absent", "pending"}]
    BY EmployersAssumption DEF Review, EmployersTypeOK
  <2>2. company' \in Companies \union {NoCompany} /\ assigned' \in Companies \union {NoCompany} /\ drift' \in BOOLEAN
    BY <1>2 DEF EmployersTypeOK
  <2>3. reviews' \in SUBSET Sources
    BY DEF Review, EmployersTypeOK, WithoutTask
  <2> QED  BY <1>3, <2>1, <2>2, <2>3 DEF Review, EmployersTypeOK, ReaderState
<1>5. \A f \in Companies : UnresolvedOf(f)' \subseteq UnresolvedOf(f)
  BY DEF Review, Reviewable, UnresolvedOf, EmployersTypeOK
<1>6. UNCHANGED twins
  BY DEF Review
<1>7. HistoryFollows'
  BY <1>2 DEF HistoryFollows
<1>8. OneUndecided'
  BY <1>5, <1>6 DEF OneUndecided
<1>9. ProposalsAreNew'
  BY <1>3, <1>5, <1>6, ReaderShape DEF ProposalsAreNew
<1>10. EndersSawAnother'
  BY <1>2, RowEndedShape DEF EndersSawAnother
<1> QED  BY <1>4, <1>7, <1>8, <1>9, <1>10

LEMMA FormAndCaseKeep ==
  ASSUME EmployersInv, (\E c \in Companies \union {NoCompany} : SaveCaseForm(c)) \/ CaseChanges
  PROVE  EmployersInv'
<1> USE DEF EmployersInv
<1>1. UNCHANGED <<assigned, candidates, reader, twins>>
  BY DEF SaveCaseForm, CaseChanges
<1>2. EmployersTypeOK'
  BY DEF SaveCaseForm, CaseChanges, EmployersTypeOK, WithTask, Sources
<1>3. HistoryFollows'
  BY DEF SaveCaseForm, CaseChanges, HistoryFollows
<1> QED  BY <1>1, <1>2, <1>3 DEF ProposalsAreNew, OneUndecided, EndersSawAnother, UnresolvedOf

LEMMA EmployersStep ==
  ASSUME EmployersInv, [EmployersNext]_employersVars
  PROVE  EmployersInv'
<1>1. CASE UNCHANGED employersVars
  BY <1>1 DEF employersVars, EmployersInv, EmployersTypeOK, ProposalsAreNew, OneUndecided, EndersSawAnother,
              HistoryFollows, UnresolvedOf
<1>2. CASE EmployersNext
  BY <1>2, HistoryKeeps, ProposeReadKeeps, ProposeInsertKeeps, ReviewKeeps, FormAndCaseKeep
  DEF EmployersNext, ProposalStep, OfficeStep
<1> QED  BY <1>1, <1>2

LEMMA AtMostOneUndecided ==
  ASSUME EmployersInv
  PROVE  OneDecisionPerEmployer
<1> SUFFICES ASSUME NEW e \in Companies, e \notin twins
             PROVE  ~(Cardinality(UnresolvedOf(e)) > 1)
  BY DEF EmployersInv, HistoryFollows, OneDecisionPerEmployer
<1>1. UnresolvedOf(e) = {} \/ \E s \in Sources : UnresolvedOf(e) = {s}
  BY DEF EmployersInv, OneUndecided, UnresolvedOf
<1>2. CASE UnresolvedOf(e) = {}
  BY <1>2, FS_EmptySet
<1>3. ASSUME NEW s \in Sources, UnresolvedOf(e) = {s} PROVE ~(Cardinality(UnresolvedOf(e)) > 1)
  BY <1>3, FS_Singleton
<1> QED  BY <1>1, <1>2, <1>3

LEMMA EmployersInvHolds == EmployersSpec => []EmployersInv
  BY EmployersInitInv, EmployersStep, PTL DEF EmployersSpec

(* For any employers, papers and readers: the staff has one undecided        *)
(* candidate per employer, unless two sources were read at the same time,    *)
(* and the history names the company of the case, unless the case was made   *)
(* without a history, the form changed its company, or a reader wrote the    *)
(* company of a case that has another one by now (employers.py:33-52,        *)
(* 91-167, 198-210).                                                         *)
THEOREM OneDecisionHolds == EmployersSpec => []OneDecisionPerEmployer
<1>1. EmployersInv => OneDecisionPerEmployer
  BY AtMostOneUndecided
<1> QED  BY <1>1, EmployersInvHolds, PTL

-----------------------------------------------------------------------------
(* What the staff is told (Attention).                                       *)

(* The hash goes with the number, and who answered has been asked.           *)
Kept(r) == r.hash = r.number /\ (r.card # "none" => r.mos)

AttentionInv == AttentionTypeOK /\ \A d \in Dossiers : Kept(dossier[d])

LEMMA NewDossierKept == NewDossier \in Dossier /\ Kept(NewDossier)
  BY DEF NewDossier, Dossier, Until, Kept

LEMMA ChangeKeeps ==
  ASSUME AttentionInv, NEW d \in Dossiers, NEW file \in Dossier, Kept(file), Change(d, file)
  PROVE  AttentionInv'
  BY DEF AttentionInv, AttentionTypeOK, Change, Kept

LEMMA PersonKeeps ==
  ASSUME AttentionInv, person' \in Person, UNCHANGED dossier
  PROVE  AttentionInv'
  BY DEF AttentionInv, AttentionTypeOK

LEMMA SavedKept ==
  ASSUME NEW file \in Dossier, file.card # "none" => file.mos, NEW b \in BOOLEAN, b \/ file.hash = file.number
  PROVE  Saved(file, b) \in Dossier /\ Kept(Saved(file, b))
<1> DEFINE hash == IF b THEN file.number ELSE file.hash
           task == IF file.number THEN "none" ELSE file.task
           runs == IF file.number THEN FALSE ELSE file.late
           r == [file EXCEPT !.hash = hash, !.task = task, !.late = runs]
<1>1. hash \in BOOLEAN /\ hash = file.number /\ task \in {"none", "ask", "check"} /\ runs \in BOOLEAN
  BY DEF Dossier
<1>2. Saved(file, b) = r
  BY DEF Saved, Dossier
<1> HIDE DEF hash, task, runs
<1>3. r \in Dossier /\ r.hash = hash /\ r.number = file.number /\ r.card = file.card /\ r.mos = file.mos
  BY <1>1 DEF Dossier
<1> QED  BY <1>1, <1>2, <1>3 DEF Kept

LEMMA LockedKept ==
  ASSUME NEW file \in Dossier, file.card # "none" => file.mos
  PROVE  Locked(file) \in Dossier /\ Kept(Locked(file))
<1> DEFINE r == [file EXCEPT !.hash = file.number]
<1>1. r \in Dossier /\ r.hash = file.number /\ r.number = file.number /\ r.card = file.card /\ r.mos = file.mos
  BY DEF Dossier
<1> QED  BY <1>1 DEF Locked, Kept

LEMMA RowsAreKept == ASSUME AttentionInv, NEW d \in Dossiers PROVE dossier[d] \in Dossier /\ Kept(dossier[d])
  BY DEF AttentionInv, AttentionTypeOK

LEMMA CasesKeep == ASSUME AttentionInv, CaseNext PROVE AttentionInv'
<1>1. ASSUME NEW d \in Dossiers, NEW state \in {"archived", "open"},
             Change(d, Saved([dossier[d] EXCEPT !.state = state], FALSE))
      PROVE  AttentionInv'
  <2> DEFINE file == [dossier[d] EXCEPT !.state = state]
  <2>1. file \in Dossier /\ file.hash = file.number /\ (file.card # "none" => file.mos)
    BY RowsAreKept DEF Dossier, Kept
  <2> HIDE DEF file
  <2> QED  BY <1>1, <2>1, SavedKept, ChangeKeeps DEF file
<1>2. ASSUME NEW d \in Dossiers, NEW numbered \in BOOLEAN, CreateDossier(d, numbered) PROVE AttentionInv'
  <2> DEFINE file == [NewDossier EXCEPT !.state = "open", !.number = numbered]
  <2>1. file \in Dossier /\ (file.card # "none" => file.mos)
    BY NewDossierKept DEF Dossier, Kept
  <2>2. Change(d, Saved(file, TRUE))
    BY <1>2 DEF CreateDossier
  <2> HIDE DEF file
  <2> QED  BY <2>1, <2>2, SavedKept, ChangeKeeps
<1> QED  BY <1>1, <1>2 DEF CaseNext, ArchiveDossier, RestoreDossier

LEMMA EditsKeep ==
  ASSUME AttentionInv, NEW d \in Dossiers,
         \/ \E stage \in {"document_collection", "waiting_decision", "closed"}, submitted \in BOOLEAN :
               EditDossier(d, stage, submitted)
         \/ \E numbered \in BOOLEAN : EditNumber(d, numbered)
         \/ \E prints \in {"none", "held"} : SetPrints(d, prints)
  PROVE  AttentionInv'
<1>0. dossier[d] \in Dossier /\ Kept(dossier[d])
  BY RowsAreKept
<1>1. ASSUME NEW stage \in {"document_collection", "waiting_decision", "closed"}, NEW submitted \in BOOLEAN,
             EditDossier(d, stage, submitted)
      PROVE  AttentionInv'
  <2> DEFINE file == [dossier[d] EXCEPT !.stage = stage, !.submitted = submitted]
  <2>1. file \in Dossier /\ (file.card # "none" => file.mos)
    BY <1>0 DEF Dossier, Kept
  <2>2. Change(d, Locked(file))
    BY <1>1 DEF EditDossier
  <2> HIDE DEF file
  <2> QED  BY <2>1, <2>2, LockedKept, ChangeKeeps
<1>2. ASSUME NEW numbered \in BOOLEAN, EditNumber(d, numbered) PROVE AttentionInv'
  <2> DEFINE file == [dossier[d] EXCEPT !.number = numbered]
  <2>1. file \in Dossier /\ (file.card # "none" => file.mos)
    BY <1>0 DEF Dossier, Kept
  <2>2. Change(d, Locked(file))
    BY <1>2 DEF EditNumber
  <2> HIDE DEF file
  <2> QED  BY <2>1, <2>2, LockedKept, ChangeKeeps
<1>3. ASSUME NEW prints \in {"none", "held"}, SetPrints(d, prints) PROVE AttentionInv'
  <2> DEFINE file == [dossier[d] EXCEPT !.prints = prints]
  <2>1. file \in Dossier /\ (file.card # "none" => file.mos)
    BY <1>0 DEF Dossier, Kept
  <2>2. Change(d, Locked(file))
    BY <1>3 DEF SetPrints
  <2> HIDE DEF file
  <2> QED  BY <2>1, <2>2, LockedKept, ChangeKeeps
<1> QED  BY <1>1, <1>2, <1>3

LEMMA StayKeeps == ASSUME AttentionInv, StayNext PROVE AttentionInv'
<1>1. ASSUME NEW until \in Until, SetBasis(until) PROVE AttentionInv'
  <2>1. person' \in Person
    BY <1>1 DEF SetBasis, AttentionInv, AttentionTypeOK, Person
  <2> QED  BY <1>1, <2>1, PersonKeeps DEF SetBasis
<1>2. ASSUME NEW d \in Dossiers, NEW until \in Until, AnswerStay(d, until) PROVE AttentionInv'
  <2> DEFINE file == [dossier[d] EXCEPT !.stay = until]
  <2>1. file \in Dossier /\ Kept(file)
    BY RowsAreKept DEF Dossier, Kept
  <2>2. Change(d, file)
    BY <1>2 DEF AnswerStay
  <2> HIDE DEF file
  <2> QED  BY <2>1, <2>2, ChangeKeeps
<1> QED  BY <1>1, <1>2, EditsKeep DEF StayNext

LEMMA NumbersKeep == ASSUME AttentionInv, NumberNext PROVE AttentionInv'
<1> SUFFICES ASSUME NEW d \in Dossiers,
                \/ UploadWezwanie(d) \/ ReadNumber(d) \/ TaskRunsLate(d) \/ CompleteNumberTask(d) \/ OpenQuestionnaire(d)
                \/ \E numbered \in BOOLEAN : EditNumber(d, numbered)
                \/ \E card \in {"no", "yes", "numbered"} : AnswerNewCard(d, card)
             PROVE  AttentionInv'
  BY DEF NumberNext
<1>0. dossier[d] \in Dossier /\ Kept(dossier[d])
  BY RowsAreKept
<1>1. CASE UploadWezwanie(d)
  <2> DEFINE file == [dossier[d] EXCEPT !.wezwanie = TRUE]
  <2>1. file \in Dossier /\ Kept(file) /\ Change(d, file)
    BY <1>0, <1>1 DEF UploadWezwanie, Dossier, Kept
  <2> HIDE DEF file
  <2> QED  BY <2>1, ChangeKeeps
<1>2. CASE ReadNumber(d)
  <2> DEFINE file == [dossier[d] EXCEPT !.number = TRUE]
  <2>1. file \in Dossier /\ (file.card # "none" => file.mos) /\ Change(d, Saved(file, TRUE))
    BY <1>0, <1>2 DEF ReadNumber, Dossier, Kept
  <2> HIDE DEF file
  <2> QED  BY <2>1, SavedKept, ChangeKeeps
<1>3. CASE TaskRunsLate(d)
  <2> DEFINE file == [dossier[d] EXCEPT !.late = TRUE]
  <2>1. file \in Dossier /\ Kept(file) /\ Change(d, file)
    BY <1>0, <1>3 DEF TaskRunsLate, Dossier, Kept
  <2> HIDE DEF file
  <2> QED  BY <2>1, ChangeKeeps
<1>4. CASE CompleteNumberTask(d)
  <2> DEFINE file == [dossier[d] EXCEPT !.task = "none", !.late = FALSE]
  <2>1. file \in Dossier /\ Kept(file) /\ Change(d, file)
    BY <1>0, <1>4 DEF CompleteNumberTask, Dossier, Kept
  <2> HIDE DEF file
  <2> QED  BY <2>1, ChangeKeeps
<1>5. CASE OpenQuestionnaire(d)
  <2> DEFINE file == [dossier[d] EXCEPT !.mos = TRUE]
  <2>1. file \in Dossier /\ Kept(file) /\ Change(d, file)
    BY <1>0, <1>5 DEF OpenQuestionnaire, Dossier, Kept
  <2> HIDE DEF file
  <2> QED  BY <2>1, ChangeKeeps
<1>6. ASSUME NEW card \in {"no", "yes", "numbered"}, AnswerNewCard(d, card) PROVE AttentionInv'
  <2> DEFINE task == CASE card = "numbered" -> "check"
                       [] card = "yes" /\ dossier[d].task = "none" -> "ask"
                       [] OTHER -> dossier[d].task
             file == [dossier[d] EXCEPT !.card = card, !.task = task]
  <2>1. task \in {"none", "ask", "check"}
    BY <1>0 DEF Dossier
  <2>2. dossier[d].mos /\ Change(d, file)
    BY <1>6 DEF AnswerNewCard
  <2> HIDE DEF task
  <2>3. file \in Dossier /\ Kept(file)
    BY <1>0, <2>1, <2>2 DEF Dossier, Kept
  <2> HIDE DEF file
  <2> QED  BY <2>2, <2>3, ChangeKeeps
<1> QED  BY <1>1, <1>2, <1>3, <1>4, <1>5, <1>6, EditsKeep

LEMMA DebtsKeep == ASSUME AttentionInv, DebtNext PROVE AttentionInv'
<1>0. \A d \in Dossiers : dossier[d] \in Dossier /\ Kept(dossier[d])
  BY RowsAreKept
<1>1. ASSUME NEW d \in Dossiers, ConfirmPaper(d) PROVE AttentionInv'
  <2> DEFINE file == [dossier[d] EXCEPT !.awaiting = FALSE]
  <2>1. file \in Dossier /\ Kept(file) /\ Change(d, file)
    BY <1>0, <1>1 DEF ConfirmPaper, Dossier, Kept
  <2> HIDE DEF file
  <2> QED  BY <2>1, ChangeKeeps
<1>2. ASSUME NEW d \in Dossiers, DeletePaper(d) PROVE AttentionInv'
  <2> DEFINE file == [dossier[d] EXCEPT !.paper = "none", !.awaiting = FALSE]
  <2>1. file \in Dossier /\ Kept(file) /\ Change(d, file)
    BY <1>0, <1>2 DEF DeletePaper, Dossier, Kept
  <2> HIDE DEF file
  <2> QED  BY <2>1, ChangeKeeps
<1>3. ASSUME NEW d \in Dossiers, PaperAges(d) PROVE AttentionInv'
  <2> DEFINE paper == IF dossier[d].paper = "valid" THEN "expiring" ELSE "expired"
             file == [dossier[d] EXCEPT !.paper = paper]
  <2>1. Change(d, file)
    BY <1>0, <1>3 DEF PaperAges, Dossier
  <2>2. paper \in {"none", "valid", "expiring", "expired"}
    OBVIOUS
  <2> HIDE DEF paper
  <2>3. file \in Dossier /\ Kept(file)
    BY <1>0, <2>2 DEF Dossier, Kept
  <2> HIDE DEF file
  <2> QED  BY <2>1, <2>3, ChangeKeeps
<1>4. ASSUME NEW d \in Dossiers, NEW unpaid \in BOOLEAN, Change(d, [dossier[d] EXCEPT !.unpaid = unpaid])
      PROVE  AttentionInv'
  <2> DEFINE file == [dossier[d] EXCEPT !.unpaid = unpaid]
  <2>1. file \in Dossier /\ Kept(file)
    BY <1>0 DEF Dossier, Kept
  <2> HIDE DEF file
  <2> QED  BY <1>4, <2>1, ChangeKeeps DEF file
<1>5. ASSUME NEW d \in Dossiers, NEW awaiting \in BOOLEAN, UploadPaper(d, "valid", awaiting) PROVE AttentionInv'
  <2> DEFINE file == [dossier[d] EXCEPT !.paper = "valid", !.awaiting = awaiting]
  <2>1. file \in Dossier /\ Kept(file) /\ Change(d, file)
    BY <1>0, <1>5 DEF UploadPaper, Dossier, Kept
  <2> HIDE DEF file
  <2> QED  BY <2>1, ChangeKeeps
<1>6. ASSUME NEW failed \in BOOLEAN, DeliveryFails(failed) PROVE AttentionInv'
  <2>1. person' \in Person
    BY <1>6 DEF DeliveryFails, AttentionInv, AttentionTypeOK, Person
  <2> QED  BY <1>6, <2>1, PersonKeeps DEF DeliveryFails
<1>7. CASE AskErasure
  <2>1. person' \in Person
    BY <1>7 DEF AskErasure, AttentionInv, AttentionTypeOK, Person
  <2> QED  BY <1>7, <2>1, PersonKeeps DEF AskErasure
<1>8. CASE ErasureClock
  <2>1. person' \in Person
    BY <1>8 DEF ErasureClock, AttentionInv, AttentionTypeOK, Person
  <2> QED  BY <1>8, <2>1, PersonKeeps DEF ErasureClock
<1> QED  BY <1>1, <1>2, <1>3, <1>4, <1>5, <1>6, <1>7, <1>8 DEF DebtNext, PaymentFallsDue, Pay

LEMMA HearingKeeps == ASSUME AttentionInv, HearingNext PROVE AttentionInv'
<1>0. \A d \in Dossiers : dossier[d] \in Dossier /\ Kept(dossier[d])
  BY RowsAreKept
<1>1. CASE SendAppointment
  <2>1. person' \in Person
    BY <1>1 DEF SendAppointment, AttentionInv, AttentionTypeOK, Person
  <2> QED  BY <1>1, <2>1, PersonKeeps DEF SendAppointment
<1>2. ASSUME NEW d \in Dossiers, NEW prints \in {"held", "owes_zus"}, Change(d, [dossier[d] EXCEPT !.prints = prints])
      PROVE  AttentionInv'
  <2> DEFINE file == [dossier[d] EXCEPT !.prints = prints]
  <2>1. file \in Dossier /\ Kept(file)
    BY <1>0 DEF Dossier, Kept
  <2> HIDE DEF file
  <2> QED  BY <1>2, <2>1, ChangeKeeps DEF file
<1>3. ASSUME NEW d \in Dossiers, NEW stage \in {"document_collection", "waiting_decision", "closed"},
             EditDossier(d, stage, dossier[d].submitted)
      PROVE  AttentionInv'
  <2>1. dossier[d].submitted \in BOOLEAN
    BY <1>0 DEF Dossier
  <2> QED  BY <1>3, <2>1, EditsKeep
<1> QED  BY <1>1, <1>2, <1>3, EditsKeep DEF HearingNext, MonthPasses, UploadZus

LEMMA AttentionInvHolds == AttentionSpec => []AttentionInv
<1>1. AttentionInit => AttentionInv
  <2> SUFFICES ASSUME AttentionInit PROVE AttentionInv
    OBVIOUS
  <2>1. [NewDossier EXCEPT !.state = "open"] \in Dossier /\ Kept([NewDossier EXCEPT !.state = "open"])
    BY NewDossierKept DEF Dossier, Kept
  <2>2. person \in Person
    BY DEF AttentionInit, Person, Until
  <2> QED  BY <2>1, <2>2, NewDossierKept DEF AttentionInit, AttentionInv, AttentionTypeOK
<1>2. AttentionInv /\ [AttentionNext]_attentionVars => AttentionInv'
  <2>1. AttentionInv /\ UNCHANGED attentionVars => AttentionInv'
    BY DEF attentionVars, AttentionInv, AttentionTypeOK, Kept
  <2> QED  BY <2>1, CasesKeep, StayKeeps, NumbersKeep, DebtsKeep, HearingKeeps DEF AttentionNext
<1> QED  BY <1>1, <1>2, PTL DEF AttentionSpec

-----------------------------------------------------------------------------
(* The rows behind each kind of news, as the views ask for them.             *)

Awaited == \E d \in Filed : dossier[d].awaiting
PaperExpired == \E d \in Filed : dossier[d].paper = "expired"
PaperExpiring == \E d \in Filed : dossier[d].paper = "expiring"
Unpaid == \E d \in Filed : dossier[d].unpaid
LateTask == \E d \in Filed : dossier[d].task # "none" /\ dossier[d].late
Unanswered == \E d \in Filed : dossier[d].wezwanie /\ ~dossier[d].number
StayEnds == /\ EffectiveStage \in {"new_client", "document_collection"}
            /\ ~HasSubmittedCase
            /\ LegalStay = "near"
OneCardGiven == LET records == {d \in Filed : dossier[d].mos}
                IN  /\ Cardinality(records) = 1
                    /\ \A d \in records : dossier[d].card \in {"yes", "numbered"}
                    /\ ~Numbered

LEMMA InHealthStats ==
  ASSUME NEW x
  PROVE  x \in HealthStats <=>
           \/ x = "ocr" /\ Awaited
           \/ x = "expired" /\ PaperExpired
           \/ x = "expiring" /\ PaperExpiring
           \/ x = "payments" /\ Unpaid
           \/ x = "tasks" /\ LateTask
  BY DEF HealthStats, Shown, Awaited, PaperExpired, PaperExpiring, Unpaid, LateTask

LEMMA InAlerts ==
  ASSUME NEW x
  PROVE  x \in Alerts <=>
           \/ x \in HealthStats
           \/ x = "legal_stay" /\ StayEnds
           \/ x = "wezwanie" /\ Unanswered
           \/ x = "new_card" /\ OneCardGiven
           \/ x = "letter" /\ Held /\ ~person.appointment
           \/ x = "zus" /\ OwesZus
           \/ x = "erasure" /\ person.erasure \in {"closing", "late"}
           \/ x = "emails" /\ person.failed
  BY DEF Alerts, StayAlert, WezwanieAlert, NewCardAlert, HearingAlerts, ErasureAlert, Shown,
         StayEnds, Unanswered, OneCardGiven

LEMMA InBadges ==
  ASSUME AttentionInv, NEW x
  PROVE  x \in Badges <=>
           \/ x \in HealthStats
           \/ x = "legal_stay" /\ "legal_stay" \in StayBadge
           \/ x = "wezwanie" /\ Unanswered
           \/ x = "new_card" /\ "new_card" \in NumberBadges
           \/ x = "letter" /\ "letter" \in LetterBadge
           \/ x = "emails" /\ person.failed
<1>1. \A d \in Filed : dossier[d].hash = dossier[d].number
  BY DEF AttentionInv, Kept, Filed
<1>2. x \in PaperBadges \union DebtBadges <=> x \in HealthStats
  BY InHealthStats DEF PaperBadges, DebtBadges, Shown, Awaited, PaperExpired, PaperExpiring, Unpaid, LateTask
<1>3. x \in NumberBadges <=> (x = "wezwanie" /\ Unanswered) \/ (x = "new_card" /\ "new_card" \in NumberBadges)
  BY <1>1 DEF NumberBadges, Shown, Unanswered
<1>4. x \in StayBadge <=> x = "legal_stay" /\ "legal_stay" \in StayBadge
  BY DEF StayBadge, Shown
<1>5. x \in LetterBadge <=> x = "letter" /\ "letter" \in LetterBadge
  BY DEF LetterBadge, Shown
<1>6. x \in Shown("emails", person.failed) <=> x = "emails" /\ person.failed
  BY DEF Shown
<1> QED  BY <1>2, <1>3, <1>4, <1>5, <1>6 DEF Badges

(* The one open case of resolve_single_active_case.                          *)
LEMMA SingleIsTheCase ==
  ASSUME AttentionInv, Single
  PROVE  TheCase \in Filed /\ OpenDossiers = {TheCase}
<1>1. IsFiniteSet(OpenDossiers)
  <2>1. IsFiniteSet(Dossiers)
    BY AttentionAssumption, FS_Interval DEF Dossiers
  <2> QED  BY <2>1, FS_Subset DEF OpenDossiers
<1>2. PICK d : OpenDossiers = {d}
  BY <1>1, FS_Singleton DEF Single
<1> QED  BY <1>2 DEF TheCase, OpenDossiers, Filed

LEMMA OpenIsFiled == OpenDossiers \subseteq Filed
  BY DEF OpenDossiers, Filed

LEMMA StayIsCounted ==
  ASSUME AttentionInv, OpenDossiers # {}, StayEnds
  PROVE  "legal_stay" \in StayBadge
<1>1. PICK d \in OpenDossiers : TRUE
  OBVIOUS
<1>2. d \in Filed /\ dossier[d].stage = "document_collection" /\ ~dossier[d].submitted
  BY <1>1, OpenIsFiled DEF StayEnds, HasSubmittedCase
<1>3. person.basis = "near" \/ (person.basis = "none" /\ \E e \in Filed : dossier[e].stay = "near")
  BY SingleIsTheCase DEF StayEnds, LegalStay
<1> QED  BY <1>2, <1>3 DEF StayBadge, Shown

LEMMA LettersAreCounted ==
  ASSUME AttentionInv, Held, ~person.appointment
  PROVE  "letter" \in LetterBadge
  BY SingleIsTheCase DEF Held, LetterBadge, Shown

LEMMA OneCase ==
  ASSUME AttentionInv, Single, Filed = OpenDossiers
  PROVE  /\ "legal_stay" \in StayBadge <=> StayEnds
         /\ "new_card" \in NumberBadges <=> OneCardGiven
         /\ "letter" \in LetterBadge <=> Held /\ ~person.appointment
<1> DEFINE d == TheCase
<1>1. Filed = {d} /\ d \in Dossiers /\ OpenDossiers = {d}
  BY SingleIsTheCase DEF OpenDossiers
<1>2. dossier[d].hash = dossier[d].number /\ (dossier[d].card # "none" => dossier[d].mos)
  BY <1>1 DEF AttentionInv, Kept
<1> HIDE DEF d
<1>3. "legal_stay" \in StayBadge <=> StayEnds
  BY <1>1 DEF StayBadge, Shown, StayEnds, EffectiveStage, HasSubmittedCase, LegalStay, d
<1>4. "letter" \in LetterBadge <=> Held /\ ~person.appointment
  BY <1>1 DEF LetterBadge, Shown, Held, d
<1>5. "new_card" \in NumberBadges <=> ~dossier[d].number /\ dossier[d].card \in {"yes", "numbered"}
  BY <1>1, <1>2 DEF NumberBadges, Shown
<1>6. Numbered <=> dossier[d].number
  BY DEF Numbered, d
<1>7. ASSUME dossier[d].mos PROVE "new_card" \in NumberBadges <=> OneCardGiven
  <2>1. {e \in Filed : dossier[e].mos} = {d}
    BY <1>1, <1>7
  <2>2. Cardinality({e \in Filed : dossier[e].mos}) = 1
    BY <2>1, FS_Singleton
  <2> QED  BY <1>5, <1>6, <2>1, <2>2 DEF OneCardGiven
<1>8. ASSUME ~dossier[d].mos PROVE "new_card" \in NumberBadges <=> OneCardGiven
  <2>1. {e \in Filed : dossier[e].mos} = {}
    BY <1>1, <1>8
  <2>2. Cardinality({e \in Filed : dossier[e].mos}) = 0
    BY <2>1, FS_EmptySet
  <2> QED  BY <1>2, <1>5, <1>8, <2>2 DEF OneCardGiven
<1> QED  BY <1>3, <1>4, <1>7, <1>8

LEMMA AlertsCounted == ASSUME AttentionInv PROVE AlertsAreCounted(Alerts, Badges)
<1>1. Alerts \intersect (BadgeKinds \ {"legal_stay", "letter", "new_card"})
        = Badges \intersect (BadgeKinds \ {"legal_stay", "letter", "new_card"})
  BY InAlerts, InBadges DEF BadgeKinds
<1>2. OpenDossiers # {} => Alerts \intersect {"legal_stay", "letter"} \subseteq Badges
  BY InAlerts, InBadges, InHealthStats, StayIsCounted, LettersAreCounted
<1>3. ASSUME Filed = OpenDossiers, Single PROVE Alerts \intersect BadgeKinds = Badges
  <2>1. ASSUME NEW x \in Alerts \intersect BadgeKinds PROVE x \in Badges
    BY <1>3, InAlerts, InBadges, OneCase DEF BadgeKinds
  <2>2. ASSUME NEW x \in Badges PROVE x \in Alerts \intersect BadgeKinds
    BY <1>3, <2>2, InAlerts, InBadges, InHealthStats, OneCase DEF BadgeKinds
  <2> QED  BY <2>1, <2>2
<1> QED  BY <1>1, <1>2, <1>3 DEF AlertsAreCounted

LEMMA InWorkday ==
  ASSUME NEW x
  PROVE  x \in Workday <=>
           \/ x = "tasks" /\ \E d \in OpenDossiers : dossier[d].task # "none" /\ dossier[d].late
           \/ x = "payments" /\ \E d \in OpenDossiers : dossier[d].unpaid
           \/ x = "zus" /\ \E d \in OpenDossiers : dossier[d].stage = "waiting_decision" /\ dossier[d].prints = "owes_zus"
           \/ x = "new_card" /\ \E d \in OpenDossiers : dossier[d].card \in {"yes", "numbered"} /\ ~dossier[d].hash
  BY DEF Workday, WorkdayRows, WorkdayNewCards, Shown

LEMMA WorkdayCounted == ASSUME AttentionInv PROVE WorkdayIsCounted(Workday, Alerts, Badges)
<1>1. "new_card" \in NumberBadges <=> /\ \E d \in Filed : ~dossier[d].hash
                                      /\ \E d \in Filed : dossier[d].card \in {"yes", "numbered"}
  BY DEF NumberBadges, Shown
<1>2. "new_card" \in Workday => "new_card" \in Badges
  BY <1>1, InWorkday, InBadges, OpenIsFiled
<1>3. "tasks" \in Badges <=> LateTask
  BY InBadges, InHealthStats
<1>4. "payments" \in Badges <=> Unpaid
  BY InBadges, InHealthStats
<1>5. "tasks" \in Workday => LateTask
  BY InWorkday, OpenIsFiled DEF LateTask
<1>6. "payments" \in Workday => Unpaid
  BY InWorkday, OpenIsFiled DEF Unpaid
<1>7. ASSUME Filed = OpenDossiers, Single
      PROVE  /\ "tasks" \in Workday <=> "tasks" \in Badges
             /\ "payments" \in Workday <=> "payments" \in Badges
             /\ "new_card" \in Workday <=> "new_card" \in Badges
             /\ "zus" \in Workday <=> "zus" \in Alerts
  <2>1. "tasks" \in Workday <=> "tasks" \in Badges
    BY <1>3, <1>7, InWorkday DEF LateTask
  <2>2. "payments" \in Workday <=> "payments" \in Badges
    BY <1>4, <1>7, InWorkday DEF Unpaid
  <2>3. Filed = {TheCase} /\ OpenDossiers = {TheCase}
    BY <1>7, SingleIsTheCase
  <2>4. "new_card" \in Workday <=> "new_card" \in NumberBadges
    BY <1>1, <2>3, InWorkday
  <2>5. "new_card" \in Badges <=> "new_card" \in NumberBadges
    BY InBadges, InHealthStats
  <2>6. "zus" \in Workday <=> OwesZus
    BY <1>7, <2>3, InWorkday DEF OwesZus
  <2>7. "zus" \in Alerts <=> OwesZus
    BY InAlerts, InHealthStats
  <2> QED  BY <2>1, <2>2, <2>4, <2>5, <2>6, <2>7
<1>8. \A x \in Workday : x \in {"tasks", "payments", "zus", "new_card"}
  BY InWorkday
<1>9. Workday \ {"zus"} \subseteq Badges
  BY <1>2, <1>3, <1>4, <1>5, <1>6, <1>8
<1>10. Filed = OpenDossiers /\ Single => Workday \ {"zus"} = Badges \intersect {"tasks", "payments", "new_card"}
  BY <1>7, <1>8
<1> QED  BY <1>7, <1>9, <1>10 DEF WorkdayIsCounted

LEMMA InOpenChecks ==
  ASSUME NEW x
  PROVE  x \in OpenChecks <=>
           \/ x = "legal_stay" /\ ~HasSubmittedCase /\ LegalStay # "far"
           \/ x \in HealthStats /\ x \in {"ocr", "payments", "tasks"}
           \/ x = "validity" /\ (PaperExpired \/ PaperExpiring)
           \/ x = "number" /\ ~Numbered /\ \E d \in Filed : dossier[d].wezwanie
           \/ x = "letter" /\ Held /\ ~person.appointment
           \/ x = "zus" /\ OwesZus
           \/ x = "erasure" /\ person.erasure \in {"closing", "late"}
<1>1. HealthStats \intersect {"expired", "expiring"} # {} <=> PaperExpired \/ PaperExpiring
  BY InHealthStats
<1> QED  BY <1>1 DEF OpenChecks, StayCheck, PaperChecks, NumberCheck, HearingAlerts, ErasureAlert, Shown

LEMMA ChecksFollow == ASSUME AttentionInv PROVE ChecksFollowAlerts(Alerts, OpenChecks)
<1>1. ASSUME NEW kind \in Alerts \intersect DOMAIN CheckOf PROVE CheckOf[kind] \in OpenChecks
  <2>1. kind \in {"legal_stay", "ocr", "expired", "expiring", "payments", "tasks", "letter", "zus", "erasure"}
    BY DEF CheckOf
  <2>2. CASE kind = "legal_stay"
    BY <2>2, InAlerts, InHealthStats, InOpenChecks DEF CheckOf, StayEnds
  <2>3. CASE kind \in {"ocr", "payments", "tasks"}
    BY <2>3, InAlerts, InHealthStats, InOpenChecks DEF CheckOf
  <2>4. CASE kind \in {"expired", "expiring"}
    <3>1. CheckOf[kind] = "validity" /\ kind \in HealthStats
      BY <2>4, InAlerts DEF CheckOf
    <3> QED  BY <2>4, <3>1, InHealthStats, InOpenChecks
  <2>5. CASE kind \in {"letter", "zus", "erasure"}
    <3>1. CheckOf[kind] = kind /\ kind \notin HealthStats /\ kind \in Alerts
      BY <2>5, InHealthStats DEF CheckOf
    <3> QED  BY <2>5, <3>1, InAlerts, InOpenChecks
  <2> QED  BY <2>1, <2>2, <2>3, <2>4, <2>5
<1>2. ASSUME NEW d \in OpenDossiers, dossier[d].wezwanie, ~dossier[d].number PROVE "number" \in OpenChecks
  <2>1. ~Numbered
    BY <1>2, SingleIsTheCase DEF Numbered
  <2> QED  BY <1>2, <2>1, OpenIsFiled, InOpenChecks
<1>3. "legal_stay" \in Alerts => Urgent
  BY InAlerts, InHealthStats DEF StayEnds, EffectiveStage, Urgent
<1> QED  BY <1>1, <1>2, <1>3 DEF ChecksFollowAlerts

(* Alerts, counters, automatic checks and the working day tell the same of   *)
(* the same rows, after any changes and in any order of them                 *)
(* (_client_health.py, client_list_filters.py, workday.py).                  *)
THEOREM EveryViewTellsTheSame == AttentionSpec => []ViewsAgree
<1>1. AttentionInv => ViewsAgree
  BY AlertsCounted, WorkdayCounted, ChecksFollow DEF ViewsAgree
<1> QED  BY <1>1, AttentionInvHolds, PTL

-----------------------------------------------------------------------------
(* What is read off papers (Recognition).                                    *)

SheetRecord ==
    [slot : Slots \union {"none"}, file : Files,
     print : {"blurred", "plain", "number", "policy", "registration", "report"} \union Months,
     month : Months0, live : BOOLEAN,
     read : {"skipped", "pending", "success", "failed"}, told : Months0,
     awaits : BOOLEAN, job : {"none", "pending", "processing", "completed", "failed"},
     form : Forms, tries : 0..MaxTries]

ScanRecord ==
    [at : {"idle", "reading", "assign", "finish", "confirming"},
     sheet : Sheets \union {Blank}, form : Forms, month : Months0,
     passport : Entry, purpose : Entry, told : Months0,
     behind : SUBSET {"passport", "purpose", "month"}]

(* The readers a paper of a kind may be given to.                            *)
FormsOf(slot) ==
    CASE slot = "rca" -> {"zus", "insurance"}
      [] slot = "history" -> {"zus"}
      [] slot = "policy" -> {"insurance"}
      [] OTHER -> {slot}

SheetOK(s) ==
    /\ sheet[s].slot = "none" => sheet[s] = NoSheet
    /\ sheet[s].slot # "none" => sheet[s].print \in Prints(sheet[s].slot) /\ sheet[s].form \in FormsOf(sheet[s].slot)
    /\ sheet[s].slot # "rca" => sheet[s].month = Blank
    /\ sheet[s].form = "insurance" /\ sheet[s].print = "policy" => sheet[s].month = Blank
    /\ sheet[s].read = "success" /\ sheet[s].print = "registration" => sheet[s].month = Blank

(* What a reader has loaded is what is in its rows, unless it knows not that *)
(* they have changed since.                                                  *)
FitsRows(r, x) ==
    /\ x.slot # "none" /\ r.form = x.form
    /\ r.at = "reading" => r.told = Blank
    /\ r.at = "reading" /\ r.passport # passport => "passport" \in r.behind
    /\ r.at = "confirming" /\ r.purpose # purpose[x.file] => "purpose" \in r.behind
    /\ r.at \in {"reading", "assign"} /\ "month" \notin r.behind => r.month = x.month
    /\ r.at = "assign" => /\ r.told = r.month /\ x.print # "registration"
                          /\ ~(x.form = "insurance" /\ x.print = "policy")
    /\ r.at = "finish" /\ "month" \notin r.behind => r.told = x.month
    /\ x.print = "registration" /\ (r.at = "finish" \/ (r.at = "reading" /\ r.month = Blank)) => x.month = Blank

ScanOK(w) == scan[w].at # "idle" => scan[w].sheet \in Sheets /\ FitsRows(scan[w], sheet[scan[w].sheet])

RecognitionInv ==
    /\ RecognitionTypeOK
    /\ \A s \in Sheets : SheetOK(s)
    /\ \A w \in Scanners : ScanOK(w)
    /\ ReportsStandAlone

LEMMA RecognitionTypes ==
  RecognitionTypeOK <=> /\ sheet \in [Sheets -> SheetRecord] /\ scan \in [Scanners -> ScanRecord]
                        /\ passport \in Entry /\ purpose \in [Files -> Entry]
  BY DEF RecognitionTypeOK, SheetRecord, ScanRecord

(* Only reports and histories can turn out to be a registration form, and    *)
(* they are read as ZUS papers.                                              *)
LEMMA RegistrationsAreReports ==
  ASSUME NEW slot \in Slots, "registration" \in Prints(slot)
  PROVE  slot \in {"rca", "history"}
  BY RecognitionAssumption DEF Prints, AllSlots

LEMMA PrintsAreTyped ==
  ASSUME NEW slot \in Slots
  PROVE  Prints(slot) \subseteq {"blurred", "plain", "number", "policy", "registration", "report"} \union Months
  BY RecognitionAssumption DEF Prints, AllSlots

LEMMA NothingIsTyped ==
  NoSheet \in SheetRecord /\ NoScan \in ScanRecord /\ NoScan.at = "idle" /\ NoSheet.slot = "none"
<1>1. 1 \in Files /\ 0 \in 0..MaxTries
  BY RecognitionAssumption DEF Files
<1> QED  BY <1>1 DEF NoSheet, NoScan, SheetRecord, ScanRecord, Months0, Entry, Forms

(* A row of a paper, and the same paper in a later row.                      *)
SamePaper(x, y) == x.slot = y.slot /\ x.print = y.print /\ x.form = y.form /\ x.file = y.file

(* A reader that is left alone: it may have been told that its row is old.   *)
SameScan(r, q) ==
    /\ q.at = r.at /\ q.sheet = r.sheet /\ q.form = r.form /\ q.month = r.month
    /\ q.passport = r.passport /\ q.purpose = r.purpose /\ q.told = r.told
    /\ r.behind \subseteq q.behind

LEMMA OthersKeep ==
  ASSUME RecognitionInv, NEW v \in Scanners, SameScan(scan[v], scan'[v]),
         scan[v].at # "idle" =>
            /\ SamePaper(sheet[scan[v].sheet], sheet'[scan[v].sheet])
            /\ passport' # passport => "passport" \in scan'[v].behind
            /\ purpose'[sheet[scan[v].sheet].file] # purpose[sheet[scan[v].sheet].file] => "purpose" \in scan'[v].behind
            /\ sheet'[scan[v].sheet].month # sheet[scan[v].sheet].month =>
                  /\ "month" \in scan'[v].behind
                  /\ sheet[scan[v].sheet].print = "registration" => sheet'[scan[v].sheet].month = Blank
  PROVE  ScanOK(v)'
<1> SUFFICES ASSUME scan'[v].at # "idle"
             PROVE  scan'[v].sheet \in Sheets /\ FitsRows(scan[v], sheet[scan[v].sheet])'
  BY DEF ScanOK
<1>1. scan[v].at # "idle" /\ scan[v].sheet \in Sheets /\ FitsRows(scan[v], sheet[scan[v].sheet]) /\ scan'[v].sheet = scan[v].sheet
  BY DEF RecognitionInv, ScanOK, SameScan
<1>2. PICK s \in Sheets : s = scan[v].sheet /\ scan'[v].sheet = s
  BY <1>1
<1>3. FitsRows(scan[v], sheet[s])
  BY <1>1, <1>2
<1>4. FitsRows(scan[v], sheet[s])'
  BY <1>1, <1>2, <1>3 DEF FitsRows, SameScan, SamePaper
<1> QED  BY <1>2, <1>4

(* What Outdate does to a reader.                                            *)
LEMMA OutdateIs ==
  ASSUME scan \in [Scanners -> ScanRecord], NEW field \in {"passport", "purpose", "month"}, NEW readers
  PROVE  /\ Outdate(field, readers) \in [Scanners -> ScanRecord]
         /\ \A v \in Scanners : /\ SameScan(scan[v], Outdate(field, readers)[v])
                                /\ scan[v].at # "idle" /\ v \in readers => field \in Outdate(field, readers)[v].behind
<1> SUFFICES ASSUME NEW v \in Scanners
             PROVE  /\ Outdate(field, readers)[v] \in ScanRecord
                    /\ SameScan(scan[v], Outdate(field, readers)[v])
                    /\ scan[v].at # "idle" /\ v \in readers => field \in Outdate(field, readers)[v].behind
  BY DEF Outdate
<1>1. scan[v] \in ScanRecord
  OBVIOUS
<1>2. CASE scan[v].at # "idle" /\ v \in readers
  <2>1. Outdate(field, readers)[v] = [scan[v] EXCEPT !.behind = @ \union {field}]
    BY <1>2 DEF Outdate
  <2> QED  BY <1>1, <2>1 DEF ScanRecord, SameScan
<1>3. CASE ~(scan[v].at # "idle" /\ v \in readers)
  <2>1. Outdate(field, readers)[v] = scan[v]
    BY <1>3 DEF Outdate
  <2> QED  BY <1>1, <1>3, <2>1 DEF SameScan
<1> QED  BY <1>2, <1>3

-----------------------------------------------------------------------------
(* Papers come and go, and jobs with them.                                   *)

(* A step that leaves what is on the paper, and its month, as they are.      *)
Quiet(x, y) ==
    /\ SamePaper(x, y) /\ y.month = x.month /\ (y.live => x.live)
    /\ x.slot = "none" => y = x
    /\ y.read = "success" /\ y.print = "registration" => y.month = Blank

LEMMA QuietSheets ==
  ASSUME RecognitionInv, \A s \in Sheets : Quiet(sheet[s], sheet'[s])
  PROVE  (\A s \in Sheets : SheetOK(s)') /\ ReportsStandAlone'
<1>1. ASSUME NEW s \in Sheets PROVE SheetOK(s)'
  <2>1. SheetOK(s) /\ Quiet(sheet[s], sheet'[s])
    BY DEF RecognitionInv
  <2> QED  BY <2>1 DEF SheetOK, Quiet, SamePaper
<1>2. ReportsStandAlone'
  BY DEF RecognitionInv, ReportsStandAlone, Quiet, SamePaper
<1> QED  BY <1>1, <1>2

LEMMA SameIsQuiet == ASSUME RecognitionInv, NEW s \in Sheets, sheet'[s] = sheet[s] PROVE Quiet(sheet[s], sheet'[s])
<1>1. SheetOK(s)
  BY DEF RecognitionInv
<1> QED  BY <1>1 DEF SheetOK, Quiet, SamePaper

(* A step of a worker that changes nothing a reader has loaded.              *)
LEMMA QuietStep ==
  ASSUME RecognitionInv, \A s \in Sheets : Quiet(sheet[s], sheet'[s]), sheet' \in [Sheets -> SheetRecord],
         UNCHANGED <<passport, purpose>>,
         NEW w \in Scanners, NEW r \in ScanRecord, scan' = [scan EXCEPT ![w] = r], ScanOK(w)'
  PROVE  RecognitionInv'
<1>1. scan \in [Scanners -> ScanRecord] /\ passport \in Entry /\ purpose \in [Files -> Entry]
  BY RecognitionTypes DEF RecognitionInv
<1>2. scan' \in [Scanners -> ScanRecord] /\ \A v \in Scanners : v # w => scan'[v] = scan[v]
  BY <1>1
<1>3. RecognitionTypeOK'
  BY <1>1, <1>2, RecognitionTypes DEF RecognitionTypeOK, SheetRecord, ScanRecord
<1>4. ASSUME NEW v \in Scanners, v # w PROVE ScanOK(v)'
  <2>1. SameScan(scan[v], scan'[v])
    BY <1>2, <1>4 DEF SameScan
  <2>2. scan[v].at # "idle" => scan[v].sheet \in Sheets
    BY DEF RecognitionInv, ScanOK
  <2> QED  BY <2>1, <2>2, OthersKeep DEF Quiet
<1> QED  BY <1>3, <1>4, QuietSheets DEF RecognitionInv

LEMMA IdleIsOK == ASSUME NEW w \in Scanners, scan'[w].at = "idle" PROVE ScanOK(w)'
  BY DEF ScanOK

LEMMA QuietAndDone ==
  ASSUME RecognitionInv, \A s \in Sheets : Quiet(sheet[s], sheet'[s]), sheet' \in [Sheets -> SheetRecord],
         UNCHANGED <<passport, purpose>>, NEW w \in Scanners, PutDown(w)
  PROVE  RecognitionInv'
<1>1. scan' = [scan EXCEPT ![w] = NoScan] /\ NoScan \in ScanRecord
  BY NothingIsTyped DEF PutDown
<1>2. scan'[w].at = "idle"
  BY <1>1, NothingIsTyped, RecognitionTypes DEF RecognitionInv
<1> QED  BY <1>1, <1>2, IdleIsOK, QuietStep

LEMMA QuietForAll ==
  ASSUME RecognitionInv, \A s \in Sheets : Quiet(sheet[s], sheet'[s]), sheet' \in [Sheets -> SheetRecord],
         UNCHANGED <<passport, purpose, scan>>
  PROVE  RecognitionInv'
<1>1. RecognitionTypeOK'
  BY RecognitionTypes DEF RecognitionInv, RecognitionTypeOK, SheetRecord
<1>2. ASSUME NEW v \in Scanners PROVE ScanOK(v)'
  <2>1. SameScan(scan[v], scan'[v])
    BY DEF SameScan
  <2>2. scan[v].at # "idle" => scan[v].sheet \in Sheets
    BY DEF RecognitionInv, ScanOK
  <2> QED  BY <2>1, <2>2, OthersKeep DEF Quiet
<1> QED  BY <1>1, <1>2, QuietSheets DEF RecognitionInv

LEMMA UploadKeeps ==
  ASSUME RecognitionInv, NEW s \in Sheets, NEW slot \in Slots, NEW c \in Files, NEW month \in Months0,
         NEW print \in Prints(slot), NEW parse \in BOOLEAN, UploadSheet(s, slot, c, month, print, parse)
  PROVE  RecognitionInv'
<1> DEFINE y == [NoSheet EXCEPT !.slot = slot, !.file = c, !.print = print, !.month = month, !.live = TRUE,
                                !.read = IF parse THEN "pending" ELSE "skipped",
                                !.job = IF parse THEN "pending" ELSE "none",
                                !.form = JobType(slot, month)]
<1>1. sheet[s] = NoSheet /\ sheet' = [sheet EXCEPT ![s] = y] /\ UNCHANGED <<passport, purpose, scan>> /\ MayUpload(s, slot, c, month)
  BY DEF UploadSheet
<1>2. slot \in AllSlots /\ slot # "none" /\ Blank \notin Months
  BY RecognitionAssumption DEF AllSlots
<1>3. /\ y.slot = slot /\ y.file = c /\ y.print = print /\ y.month = month /\ y.read # "success"
      /\ y.form = JobType(slot, month)
  BY DEF NoSheet
<1>4. JobType(slot, month) \in Forms /\ JobType(slot, month) \in FormsOf(slot)
  BY <1>2 DEF JobType, Forms, FormsOf, AllSlots
<1>5. y \in SheetRecord
  <2>1. print \in {"blurred", "plain", "number", "policy", "registration", "report"} \union Months
    BY PrintsAreTyped
  <2>2. NoSheet \in SheetRecord
    BY NothingIsTyped
  <2> QED  BY <1>4, <2>1, <2>2 DEF SheetRecord
<1> HIDE DEF y
<1>6. sheet \in [Sheets -> SheetRecord] /\ scan \in [Scanners -> ScanRecord] /\ passport \in Entry /\ purpose \in [Files -> Entry]
  BY RecognitionTypes DEF RecognitionInv
<1>7. sheet' \in [Sheets -> SheetRecord] /\ sheet'[s] = y /\ \A r \in Sheets : r # s => sheet'[r] = sheet[r]
  BY <1>1, <1>5, <1>6
<1>8. RecognitionTypeOK'
  BY <1>1, <1>6, <1>7 DEF RecognitionTypeOK, SheetRecord, ScanRecord
<1>9. month # Blank => slot = "rca" /\ ~Refused(s, c, month)
  BY <1>1 DEF MayUpload
<1>10. SheetOK(s)'
  <2>1. JobType(slot, month) = "insurance" /\ print = "policy" => month = Blank
    BY <1>2, <1>9 DEF JobType
  <2> QED  BY <1>2, <1>3, <1>4, <1>7, <1>9, <2>1 DEF SheetOK
<1>11. \A r \in Sheets : r # s => SheetOK(r)'
  BY <1>7 DEF RecognitionInv, SheetOK
<1>12. ASSUME NEW v \in Scanners PROVE ScanOK(v)'
  <2>1. SameScan(scan[v], scan'[v])
    BY <1>1 DEF SameScan
  <2>2. scan[v].at # "idle" => scan[v].sheet \in Sheets /\ scan[v].sheet # s
    BY <1>1, NothingIsTyped DEF RecognitionInv, ScanOK, FitsRows
  <2> QED  BY <1>1, <1>7, <2>1, <2>2, OthersKeep DEF SamePaper
<1>13. ReportsStandAlone'
  <2> SUFFICES ASSUME NEW p \in Sheets, NEW r \in Sheets, p # r, sheet'[p].live, sheet'[r].live,
                      sheet'[p].slot = "rca", sheet'[r].slot = "rca", sheet'[p].file = sheet'[r].file,
                      sheet'[p].month = sheet'[r].month, sheet'[p].month # Blank
               PROVE  FALSE
    BY DEF ReportsStandAlone
  <2>1. ASSUME NEW q \in Sheets, q # s, sheet[q].live, sheet[q].slot = "rca", sheet[q].file = c, sheet[q].month = month, month # Blank
        PROVE  FALSE
    BY <1>9, <2>1 DEF Refused, IsReport
  <2>2. CASE p = s
    BY <1>3, <1>7, <2>1, <2>2
  <2>3. CASE r = s
    BY <1>3, <1>7, <2>1, <2>3
  <2>4. CASE p # s /\ r # s
    BY <1>7, <2>4 DEF RecognitionInv, ReportsStandAlone
  <2> QED  BY <2>2, <2>3, <2>4
<1> QED  BY <1>8, <1>10, <1>11, <1>12, <1>13 DEF RecognitionInv

LEMMA QueueKeeps ==
  ASSUME RecognitionInv, NEW s \in Sheets, DeleteSheet(s) \/ LoseLease(s)
  PROVE  RecognitionInv'
<1>1. sheet \in [Sheets -> SheetRecord] /\ SheetOK(s)
  BY RecognitionTypes DEF RecognitionInv
<1>2. UNCHANGED <<passport, purpose, scan>>
  BY DEF DeleteSheet, LoseLease
<1>3. sheet' \in [Sheets -> SheetRecord]
  <2>1. AfterFailure(s) \in {"pending", "failed"} /\ sheet[s] \in SheetRecord
    BY <1>1 DEF AfterFailure
  <2>2. [sheet[s] EXCEPT !.job = AfterFailure(s)] \in SheetRecord /\ [sheet[s] EXCEPT !.live = FALSE] \in SheetRecord
    BY <2>1 DEF SheetRecord
  <2> QED  BY <1>1, <2>2 DEF DeleteSheet, LoseLease
<1>4. sheet[s].slot # "none"
  BY <1>1 DEF DeleteSheet, LoseLease, SheetOK, NoSheet
<1>5. Quiet(sheet[s], sheet'[s])
  BY <1>1, <1>4 DEF DeleteSheet, LoseLease, SheetOK, Quiet, SamePaper, SheetRecord
<1>6. \A r \in Sheets : r # s => sheet'[r] = sheet[r]
  BY <1>1 DEF DeleteSheet, LoseLease
<1> QED  BY <1>2, <1>3, <1>5, <1>6, SameIsQuiet, QuietForAll

-----------------------------------------------------------------------------
(* Loading the rows: for a job, or to confirm what was read.                 *)

LEMMA LoadedIsOK ==
  ASSUME RecognitionInv, NEW w \in Scanners, NEW s \in Sheets, NEW at \in {"reading", "confirming"}, LoadRows(w, s, at),
         sheet[s].slot # "none", SamePaper(sheet[s], sheet'[s]), sheet'[s].month = sheet[s].month,
         UNCHANGED <<passport, purpose>>
  PROVE  /\ ScanOK(w)'
         /\ \E r \in ScanRecord : scan' = [scan EXCEPT ![w] = r]
<1>1. PICK r : r = [at |-> at, sheet |-> s, form |-> sheet[s].form, month |-> sheet[s].month,
                   passport |-> passport, purpose |-> purpose[sheet[s].file], told |-> Blank, behind |-> {}]
  OBVIOUS
<1>2. scan' = [scan EXCEPT ![w] = r]
  BY <1>1 DEF LoadRows
<1>3. sheet[s] \in SheetRecord /\ passport \in Entry /\ purpose \in [Files -> Entry] /\ scan \in [Scanners -> ScanRecord]
  BY RecognitionTypes DEF RecognitionInv
<1>4. sheet[s].form \in Forms /\ sheet[s].month \in Months0 /\ sheet[s].file \in Files /\ Blank \in Months0
  BY <1>3 DEF SheetRecord, Months0
<1>5. r \in ScanRecord
  BY <1>1, <1>3, <1>4 DEF ScanRecord
<1>6. scan'[w] = r
  BY <1>2, <1>3
<1>7. /\ r.at = at /\ r.sheet = s /\ r.form = sheet[s].form /\ r.month = sheet[s].month
      /\ r.passport = passport /\ r.purpose = purpose[sheet[s].file] /\ r.told = Blank
  BY <1>1
<1>8. FitsRows(scan[w], sheet[s])'
  BY <1>6, <1>7 DEF FitsRows, SamePaper
<1>9. ScanOK(w)'
  BY <1>6, <1>7, <1>8 DEF ScanOK
<1> QED  BY <1>2, <1>5, <1>9

LEMMA ClaimKeeps == ASSUME RecognitionInv, NEW w \in Scanners, NEW s \in Sheets, ClaimSheet(w, s) PROVE RecognitionInv'
<1>1. /\ sheet[s].job = "pending" /\ sheet[s].tries < MaxTries /\ LoadRows(w, s, "reading") /\ UNCHANGED <<passport, purpose>>
      /\ sheet' = [sheet EXCEPT ![s].job = "processing", ![s].tries = @ + 1]
  BY DEF ClaimSheet
<1>2. sheet \in [Sheets -> SheetRecord] /\ SheetOK(s) /\ sheet[s] \in SheetRecord
  BY RecognitionTypes DEF RecognitionInv
<1> DEFINE y == [sheet[s] EXCEPT !.job = "processing", !.tries = @ + 1]
<1>3. y \in SheetRecord
  <2>1. sheet[s].tries + 1 \in 0..MaxTries
    BY <1>1, <1>2, RecognitionAssumption DEF SheetRecord
  <2> QED  BY <1>2, <2>1 DEF SheetRecord
<1>4. sheet' = [sheet EXCEPT ![s] = y]
  BY <1>1
<1>5. sheet[s].slot # "none"
  BY <1>1, <1>2 DEF SheetOK, NoSheet
<1>6. Quiet(sheet[s], y) /\ SamePaper(sheet[s], y)
  BY <1>2, <1>5 DEF SheetOK, Quiet, SamePaper, SheetRecord
<1> HIDE DEF y
<1>7. sheet' \in [Sheets -> SheetRecord] /\ sheet'[s] = y /\ \A r \in Sheets : r # s => sheet'[r] = sheet[r]
  BY <1>2, <1>3, <1>4
<1>8. \A r \in Sheets : Quiet(sheet[r], sheet'[r])
  BY <1>6, <1>7, SameIsQuiet
<1>9. ScanOK(w)' /\ \E r \in ScanRecord : scan' = [scan EXCEPT ![w] = r]
  BY <1>1, <1>5, <1>6, <1>7, LoadedIsOK DEF Quiet
<1> QED  BY <1>1, <1>7, <1>8, <1>9, QuietStep

LEMMA ConfirmReadKeeps == ASSUME RecognitionInv, NEW w \in Scanners, NEW s \in Sheets, ConfirmRead(w, s) PROVE RecognitionInv'
<1>1. /\ sheet[s].live /\ sheet[s].slot = "wezwanie" /\ LoadRows(w, s, "confirming") /\ UNCHANGED <<passport, purpose>>
      /\ sheet' = [sheet EXCEPT ![s].awaits = FALSE, ![s].read = "success"]
  BY DEF ConfirmRead
<1>2. sheet \in [Sheets -> SheetRecord] /\ SheetOK(s) /\ sheet[s] \in SheetRecord
  BY RecognitionTypes DEF RecognitionInv
<1> DEFINE y == [sheet[s] EXCEPT !.awaits = FALSE, !.read = "success"]
<1>3. y \in SheetRecord /\ sheet' = [sheet EXCEPT ![s] = y]
  BY <1>1, <1>2 DEF SheetRecord
<1>4. sheet[s].month = Blank
  BY <1>1, <1>2 DEF SheetOK
<1>5. Quiet(sheet[s], y) /\ SamePaper(sheet[s], y)
  BY <1>1, <1>2, <1>4 DEF SheetOK, Quiet, SamePaper, SheetRecord
<1> HIDE DEF y
<1>6. sheet' \in [Sheets -> SheetRecord] /\ sheet'[s] = y /\ \A r \in Sheets : r # s => sheet'[r] = sheet[r]
  BY <1>2, <1>3
<1>7. \A r \in Sheets : Quiet(sheet[r], sheet'[r])
  BY <1>5, <1>6, SameIsQuiet
<1>8. ScanOK(w)' /\ \E r \in ScanRecord : scan' = [scan EXCEPT ![w] = r]
  BY <1>1, <1>5, <1>6, LoadedIsOK DEF Quiet
<1> QED  BY <1>1, <1>6, <1>7, <1>8, QuietStep

-----------------------------------------------------------------------------
(* Readers that end, or come to their end without a month.                   *)

(* A step that writes the outcome of reading the paper a worker has.         *)
LEMMA OutcomeKeeps ==
  ASSUME RecognitionInv, NEW w \in Scanners, scan[w].at # "idle", NEW s \in Sheets, s = scan[w].sheet,
         UNCHANGED <<passport, purpose>>, PutDown(w), NEW y \in SheetRecord,
         SamePaper(sheet[s], y), y.month = sheet[s].month, y.live => sheet[s].live,
         y.read = "success" /\ y.print = "registration" => y.month = Blank,
         sheet' = [sheet EXCEPT ![s] = y]
  PROVE  RecognitionInv'
<1>1. sheet \in [Sheets -> SheetRecord] /\ sheet[s].slot # "none"
  BY RecognitionTypes DEF RecognitionInv, ScanOK, FitsRows
<1>2. sheet' \in [Sheets -> SheetRecord] /\ sheet'[s] = y /\ \A r \in Sheets : r # s => sheet'[r] = sheet[r]
  BY <1>1
<1>3. \A r \in Sheets : Quiet(sheet[r], sheet'[r])
  BY <1>1, <1>2, SameIsQuiet DEF Quiet
<1> QED  BY <1>2, <1>3, QuietAndDone

LEMMA SameAndDone == ASSUME RecognitionInv, NEW w \in Scanners, UNCHANGED <<sheet, passport, purpose>>, PutDown(w) PROVE RecognitionInv'
<1>1. \A s \in Sheets : Quiet(sheet[s], sheet'[s])
  BY SameIsQuiet
<1>2. sheet' \in [Sheets -> SheetRecord]
  BY RecognitionTypes DEF RecognitionInv
<1> QED  BY <1>1, <1>2, QuietAndDone

LEMMA ReaderHasPaper ==
  ASSUME RecognitionInv, NEW w \in Scanners, scan[w].at # "idle"
  PROVE  \E s \in Sheets : s = scan[w].sheet /\ FitsRows(scan[w], sheet[s]) /\ SheetOK(s)
                          /\ sheet[s] \in SheetRecord /\ scan[w] \in ScanRecord
  BY RecognitionTypes DEF RecognitionInv, ScanOK

LEMMA FailDocumentKeeps == ASSUME RecognitionInv, NEW w \in Scanners, Reads(w), FailDocument(w) PROVE RecognitionInv'
<1>1. PICK s \in Sheets : s = scan[w].sheet /\ sheet[s] \in SheetRecord
  BY ReaderHasPaper DEF Reads
<1>2. scan[w].at # "idle" /\ PutDown(w) /\ UNCHANGED <<passport, purpose>>
  BY DEF Reads, FailDocument
<1>3. CASE sheet[s].job = "processing" /\ sheet[s].live
  <2>1. PICK after \in {"pending", "failed"} : after = AfterFailure(s)
    BY DEF AfterFailure
  <2> DEFINE y == [sheet[s] EXCEPT !.read = "failed", !.awaits = FALSE, !.job = after]
  <2>2. sheet' = [sheet EXCEPT ![s] = y]
    BY <1>1, <1>3, <2>1 DEF FailDocument
  <2>3. y \in SheetRecord /\ SamePaper(sheet[s], y) /\ y.month = sheet[s].month /\ y.live = sheet[s].live /\ y.read = "failed"
    BY <1>1 DEF SheetRecord, SamePaper
  <2> HIDE DEF y
  <2> QED  BY <1>1, <1>2, <2>2, <2>3, OutcomeKeeps
<1>4. CASE ~(sheet[s].job = "processing" /\ sheet[s].live)
  <2>1. UNCHANGED sheet
    BY <1>1, <1>4 DEF FailDocument
  <2> QED  BY <1>2, <2>1, SameAndDone
<1> QED  BY <1>3, <1>4

LEMMA IllegibleKeeps == ASSUME RecognitionInv, NEW w \in Scanners, Illegible(w) PROVE RecognitionInv'
<1>1. PICK s \in Sheets : s = scan[w].sheet /\ sheet[s] \in SheetRecord
  BY ReaderHasPaper DEF Reads, Illegible
<1>2. CASE scan[w].form = "wezwanie"
  BY <1>2, FailDocumentKeeps DEF Illegible
<1>3. CASE scan[w].form # "wezwanie"
  <2> DEFINE y == [sheet[s] EXCEPT !.read = "failed", !.job = "failed"]
  <2>1. scan[w].at # "idle" /\ PutDown(w) /\ UNCHANGED <<passport, purpose>> /\ sheet' = [sheet EXCEPT ![s] = y]
    BY <1>1, <1>3 DEF Illegible, Reads
  <2>2. y \in SheetRecord /\ SamePaper(sheet[s], y) /\ y.month = sheet[s].month /\ y.live = sheet[s].live /\ y.read = "failed"
    BY <1>1 DEF SheetRecord, SamePaper
  <2> HIDE DEF y
  <2> QED  BY <1>1, <2>1, <2>2, OutcomeKeeps
<1> QED  BY <1>2, <1>3

LEMMA FinishKeeps == ASSUME RecognitionInv, NEW w \in Scanners, FinishSheet(w) PROVE RecognitionInv'
<1>1. /\ scan[w].at = "finish" /\ PutDown(w) /\ UNCHANGED <<passport, purpose>>
      /\ sheet' = [sheet EXCEPT ![scan[w].sheet].read = "success", ![scan[w].sheet].told = scan[w].told,
                                ![scan[w].sheet].job = "completed"]
  BY DEF FinishSheet
<1>2. PICK s \in Sheets, told \in Months0 :
         s = scan[w].sheet /\ told = scan[w].told /\ FitsRows(scan[w], sheet[s]) /\ sheet[s] \in SheetRecord
  BY <1>1, ReaderHasPaper DEF ScanRecord
<1> DEFINE y == [sheet[s] EXCEPT !.read = "success", !.told = told, !.job = "completed"]
<1>3. sheet' = [sheet EXCEPT ![s] = y]
  BY <1>1, <1>2
<1>4. y \in SheetRecord /\ SamePaper(sheet[s], y) /\ y.month = sheet[s].month /\ y.live = sheet[s].live /\ y.print = sheet[s].print
  BY <1>2 DEF SheetRecord, SamePaper
<1>5. sheet[s].print = "registration" => sheet[s].month = Blank
  BY <1>1, <1>2 DEF FitsRows
<1> HIDE DEF y
<1> QED  BY <1>1, <1>2, <1>3, <1>4, <1>5, OutcomeKeeps

LEMMA ReadWezwanieKeeps == ASSUME RecognitionInv, NEW w \in Scanners, ReadWezwanie(w) PROVE RecognitionInv'
<1>1. scan[w].at # "idle" /\ scan[w].form = "wezwanie" /\ PutDown(w) /\ UNCHANGED <<passport, purpose>>
  BY DEF ReadWezwanie, Reads
<1>2. PICK s \in Sheets : s = scan[w].sheet /\ sheet[s] \in SheetRecord /\ FitsRows(scan[w], sheet[s]) /\ SheetOK(s)
  BY <1>1, ReaderHasPaper
<1>3. sheet[s].month = Blank
  <2>1. "wezwanie" \in FormsOf(sheet[s].slot)
    BY <1>1, <1>2 DEF FitsRows, SheetOK
  <2>2. sheet[s].slot # "rca"
    BY <2>1 DEF FormsOf
  <2> QED  BY <1>2, <2>2 DEF SheetOK
<1>4. CASE sheet[s].job = "processing" /\ sheet[s].live
  <2> DEFINE y == [sheet[s] EXCEPT !.read = "success", !.awaits = TRUE, !.job = "completed"]
  <2>1. sheet' = [sheet EXCEPT ![s] = y]
    BY <1>2, <1>4 DEF ReadWezwanie
  <2>2. y \in SheetRecord /\ SamePaper(sheet[s], y) /\ y.month = sheet[s].month /\ y.live = sheet[s].live
    BY <1>2 DEF SheetRecord, SamePaper
  <2> HIDE DEF y
  <2> QED  BY <1>1, <1>2, <1>3, <2>1, <2>2, OutcomeKeeps
<1>5. CASE ~(sheet[s].job = "processing" /\ sheet[s].live)
  <2>1. UNCHANGED sheet
    BY <1>2, <1>5 DEF ReadWezwanie
  <2> QED  BY <1>1, <2>1, SameAndDone
<1> QED  BY <1>4, <1>5

(* A reader that found no month to write, and came to the end of its paper.  *)
LEMMA ToTheEnd ==
  ASSUME RecognitionInv, NEW w \in Scanners, Reads(w), NEW s \in Sheets, s = scan[w].sheet, sheet[s].month = Blank,
         scan' = [scan EXCEPT ![w].at = "finish"], UNCHANGED <<sheet, passport, purpose>>
  PROVE  RecognitionInv'
<1>1. FitsRows(scan[w], sheet[s]) /\ scan[w] \in ScanRecord /\ scan[w].at = "reading"
  BY ReaderHasPaper DEF Reads
<1>2. PICK r \in ScanRecord : r = [scan[w] EXCEPT !.at = "finish"]
  BY <1>1 DEF ScanRecord
<1>3. scan' = [scan EXCEPT ![w] = r] /\ scan \in [Scanners -> ScanRecord] /\ sheet \in [Sheets -> SheetRecord]
  BY <1>2, RecognitionTypes DEF RecognitionInv
<1>4. scan'[w] = r /\ r.at = "finish" /\ r.sheet = s /\ r.form = scan[w].form /\ r.told = scan[w].told
  BY <1>1, <1>2, <1>3 DEF ScanRecord
<1>5. FitsRows(scan[w], sheet[s])'
  BY <1>1, <1>4 DEF FitsRows
<1>6. ScanOK(w)'
  BY <1>4, <1>5 DEF ScanOK
<1> QED  BY <1>3, <1>6, SameIsQuiet, QuietStep

LEMMA ReadToEndKeeps ==
  ASSUME RecognitionInv, NEW w \in Scanners, ReadCompany(w) \/ ReadLease(w) \/ ReadPolicy(w)
  PROVE  RecognitionInv'
<1>1. Reads(w) /\ scan' = [scan EXCEPT ![w].at = "finish"] /\ UNCHANGED <<sheet, passport, purpose>>
  BY DEF ReadCompany, ReadLease, ReadPolicy, ReadToEnd
<1>2. PICK s \in Sheets : s = scan[w].sheet /\ FitsRows(scan[w], sheet[s]) /\ SheetOK(s)
  BY <1>1, ReaderHasPaper DEF Reads
<1>3. sheet[s].month = Blank
  <2>1. scan[w].form \in FormsOf(sheet[s].slot)
    BY <1>2 DEF FitsRows, SheetOK
  <2>2. CASE scan[w].form \in {"company", "rental"}
    <3>1. sheet[s].slot # "rca"
      BY <2>1, <2>2 DEF FormsOf
    <3> QED  BY <1>2, <3>1 DEF SheetOK
  <2>3. CASE scan[w].form = "insurance" /\ (sheet[s].slot = "policy" \/ sheet[s].print = "policy")
    BY <1>2, <2>3 DEF SheetOK, FitsRows
  <2> QED  BY <1>2, <2>2, <2>3 DEF ReadCompany, ReadLease, ReadPolicy, Paper
<1> QED  BY <1>1, <1>2, <1>3, ToTheEnd

(* A reader that looks for a month and leaves the row alone.                 *)
LEMMA ReadMonthKeeps == ASSUME RecognitionInv, NEW w \in Scanners, ReadMonth(w) PROVE RecognitionInv'
<1>1. ReadsZus(w) /\ Reads(w) /\ Paper(w).print # "registration" /\ UNCHANGED <<sheet, passport, purpose>>
  BY DEF ReadMonth, ReadsZus
<1>2. PICK s \in Sheets : s = scan[w].sheet /\ FitsRows(scan[w], sheet[s]) /\ scan[w] \in ScanRecord
  BY <1>1, ReaderHasPaper DEF Reads
<1>3. PICK at \in {"finish", "assign"} :
         scan' = [scan EXCEPT ![w].at = at, ![w].told = scan[w].month]
  BY DEF ReadMonth
<1>4. PICK r \in ScanRecord : r = [scan[w] EXCEPT !.at = at, !.told = scan[w].month]
  BY <1>2 DEF ScanRecord
<1>5. scan' = [scan EXCEPT ![w] = r] /\ scan \in [Scanners -> ScanRecord] /\ sheet \in [Sheets -> SheetRecord]
  BY <1>3, <1>4, RecognitionTypes DEF RecognitionInv
<1>6. /\ scan'[w] = r /\ r.at = at /\ r.sheet = s /\ r.form = scan[w].form /\ r.told = scan[w].month /\ r.month = scan[w].month
      /\ r.behind = scan[w].behind
  BY <1>2, <1>4, <1>5 DEF ScanRecord
<1>7. scan[w].at = "reading" /\ sheet[s].print # "registration" /\ ~(sheet[s].form = "insurance" /\ sheet[s].print = "policy")
  BY <1>1, <1>2 DEF Reads, ReadsZus, Paper, FitsRows
<1>8. FitsRows(scan[w], sheet[s])'
  BY <1>1, <1>2, <1>6, <1>7 DEF FitsRows
<1>9. ScanOK(w)'
  BY <1>6, <1>8 DEF ScanOK
<1> QED  BY <1>1, <1>5, <1>9, SameIsQuiet, QuietStep

-----------------------------------------------------------------------------
(* Months are written.                                                       *)

LEMMA WriteMonthKeeps ==
  ASSUME RecognitionInv, NEW w \in Scanners, scan[w].at # "idle", NEW s \in Sheets, s = scan[w].sheet,
         NEW m \in Months0, WriteMonth(w, m), UNCHANGED <<passport, purpose>>,
         sheet[s].slot # "rca" => m = Blank, sheet[s].form = "insurance" /\ sheet[s].print = "policy" => m = Blank,
         sheet[s].print = "registration" => m = Blank,
         m # Blank /\ sheet[s].live => ~Refused(s, sheet[s].file, m)
  PROVE  RecognitionInv'
<1>1. sheet \in [Sheets -> SheetRecord] /\ scan \in [Scanners -> ScanRecord] /\ passport \in Entry /\ purpose \in [Files -> Entry]
  BY RecognitionTypes DEF RecognitionInv
<1>2. sheet[s] \in SheetRecord /\ SheetOK(s) /\ FitsRows(scan[w], sheet[s]) /\ scan[w].sheet \in Sheets
  BY ReaderHasPaper
<1> DEFINE y == [sheet[s] EXCEPT !.month = m]
           old == Outdate("month", {v \in Scanners \ {w} : scan[v].sheet = scan[w].sheet})
<1>3. sheet' = [sheet EXCEPT ![s] = y] /\ scan' = [old EXCEPT ![w].at = "finish", ![w].told = m]
  BY DEF WriteMonth
<1>4. /\ y \in SheetRecord /\ SamePaper(sheet[s], y) /\ y.month = m /\ y.live = sheet[s].live /\ y.read = sheet[s].read
      /\ y.slot = sheet[s].slot /\ y.print = sheet[s].print /\ y.form = sheet[s].form /\ y.file = sheet[s].file
  BY <1>2 DEF SheetRecord, SamePaper
<1>5. /\ old \in [Scanners -> ScanRecord]
      /\ \A v \in Scanners : SameScan(scan[v], old[v])
      /\ \A v \in Scanners : scan[v].at # "idle" /\ v # w /\ scan[v].sheet = s => "month" \in old[v].behind
  BY <1>1, OutdateIs
<1> HIDE DEF y, old
<1>6. sheet' \in [Sheets -> SheetRecord] /\ sheet'[s] = y /\ \A k \in Sheets : k # s => sheet'[k] = sheet[k]
  BY <1>1, <1>3, <1>4
<1>7. PICK r \in ScanRecord : r = [old[w] EXCEPT !.at = "finish", !.told = m]
  BY <1>5 DEF ScanRecord
<1>8. /\ scan' \in [Scanners -> ScanRecord] /\ \A v \in Scanners : v # w => scan'[v] = old[v]
      /\ scan'[w] = r
  BY <1>3, <1>5, <1>7
<1>9. r.at = "finish" /\ r.told = m /\ r.sheet = s /\ r.form = scan[w].form
  BY <1>5, <1>7 DEF SameScan, ScanRecord
<1>10. RecognitionTypeOK'
  BY <1>1, <1>6, <1>8 DEF RecognitionTypeOK, SheetRecord, ScanRecord
<1>11. SheetOK(s)'
  BY <1>2, <1>4, <1>6 DEF SheetOK, FitsRows
<1>12. \A k \in Sheets : k # s => SheetOK(k)'
  BY <1>6 DEF RecognitionInv, SheetOK
<1>13. ScanOK(w)'
  <2>1. FitsRows(scan[w], sheet[s])'
    BY <1>2, <1>4, <1>6, <1>8, <1>9 DEF FitsRows
  <2> QED  BY <1>8, <1>9, <2>1 DEF ScanOK
<1>14. ASSUME NEW v \in Scanners, v # w PROVE ScanOK(v)'
  <2>1. SameScan(scan[v], scan'[v])
    BY <1>5, <1>8, <1>14
  <2>2. scan[v].at # "idle" => scan[v].sheet \in Sheets
    BY DEF RecognitionInv, ScanOK
  <2>3. CASE scan[v].at # "idle" /\ scan[v].sheet = s
    <3>1. "month" \in scan'[v].behind
      BY <1>5, <1>8, <1>14, <2>3
    <3> QED  BY <1>4, <1>6, <2>1, <2>3, <3>1, OthersKeep
  <2>4. CASE scan[v].at # "idle" /\ scan[v].sheet # s
    <3>1. sheet'[scan[v].sheet] = sheet[scan[v].sheet]
      BY <1>6, <2>2, <2>4
    <3> QED  BY <2>1, <2>4, <3>1, OthersKeep DEF SamePaper
  <2>5. CASE scan[v].at = "idle"
    BY <2>1, <2>5 DEF SameScan, ScanOK
  <2> QED  BY <2>3, <2>4, <2>5
<1>15. ReportsStandAlone'
  <2> SUFFICES ASSUME NEW p \in Sheets, NEW q \in Sheets, p # q, sheet'[p].live, sheet'[q].live,
                      sheet'[p].slot = "rca", sheet'[q].slot = "rca", sheet'[p].file = sheet'[q].file,
                      sheet'[p].month = sheet'[q].month, sheet'[p].month # Blank
               PROVE  FALSE
    BY DEF ReportsStandAlone
  <2>1. ASSUME NEW k \in Sheets, k # s, sheet[k].live, sheet[k].slot = "rca", sheet[k].file = sheet[s].file, sheet[k].month = m,
               m # Blank, sheet[s].live
        PROVE  FALSE
    BY <2>1 DEF Refused, IsReport
  <2>2. CASE p = s
    BY <1>4, <1>6, <2>1, <2>2
  <2>3. CASE q = s
    BY <1>4, <1>6, <2>1, <2>3
  <2>4. CASE p # s /\ q # s
    BY <1>6, <2>4 DEF RecognitionInv, ReportsStandAlone
  <2> QED  BY <2>2, <2>3, <2>4
<1> QED  BY <1>10, <1>11, <1>12, <1>13, <1>14, <1>15 DEF RecognitionInv

LEMMA ReadRegistrationKeeps == ASSUME RecognitionInv, NEW w \in Scanners, ReadRegistration(w) PROVE RecognitionInv'
<1>1. Reads(w) /\ scan[w].at = "reading" /\ UNCHANGED <<passport, purpose>>
  BY DEF ReadRegistration, ReadsZus, Reads
<1>2. PICK s \in Sheets : s = scan[w].sheet /\ FitsRows(scan[w], sheet[s]) /\ sheet[s].print = "registration"
  BY <1>1, ReaderHasPaper DEF ReadRegistration, Paper
<1>3. CASE scan[w].month # Blank
  <2>1. WriteMonth(w, Blank) /\ Blank \in Months0
    BY <1>3 DEF ReadRegistration, Months0
  <2> QED  BY <1>1, <1>2, <2>1, WriteMonthKeeps
<1>4. CASE scan[w].month = Blank
  <2>1. UNCHANGED sheet /\ scan' = [scan EXCEPT ![w].at = "finish"]
    BY <1>4 DEF ReadRegistration
  <2>2. sheet[s].month = Blank
    BY <1>1, <1>2, <1>4 DEF FitsRows
  <2> QED  BY <1>1, <1>2, <2>1, <2>2, ToTheEnd
<1> QED  BY <1>3, <1>4

LEMMA AssignMonthKeeps == ASSUME RecognitionInv, NEW w \in Scanners, AssignMonth(w) PROVE RecognitionInv'
<1>1. scan[w].at = "assign" /\ UNCHANGED <<passport, purpose>>
  BY DEF AssignMonth
<1>2. PICK s \in Sheets : s = scan[w].sheet /\ FitsRows(scan[w], sheet[s]) /\ sheet[s] \in SheetRecord /\ scan[w] \in ScanRecord
  BY <1>1, ReaderHasPaper
<1>3. PICK m \in Months0 : m = FoundMonth(w)
  BY <1>2 DEF FoundMonth, ScanRecord, Months0
<1>4. CASE sheet[s].slot = "rca" /\ ~(sheet[s].live /\ Refused(s, sheet[s].file, m))
  <2>1. WriteMonth(w, m)
    BY <1>2, <1>3, <1>4 DEF AssignMonth, Paper
  <2>2. sheet[s].print # "registration" /\ ~(sheet[s].form = "insurance" /\ sheet[s].print = "policy")
    BY <1>1, <1>2 DEF FitsRows
  <2> QED  BY <1>1, <1>2, <1>4, <2>1, <2>2, WriteMonthKeeps
<1>5. CASE ~(sheet[s].slot = "rca" /\ ~(sheet[s].live /\ Refused(s, sheet[s].file, m)))
  <2>1. UNCHANGED sheet /\ scan' = [scan EXCEPT ![w].at = "finish"]
    BY <1>2, <1>3, <1>5 DEF AssignMonth, Paper
  <2>2. PICK r \in ScanRecord : r = [scan[w] EXCEPT !.at = "finish"]
    BY <1>2 DEF ScanRecord
  <2>3. scan' = [scan EXCEPT ![w] = r] /\ scan \in [Scanners -> ScanRecord] /\ sheet \in [Sheets -> SheetRecord]
    BY <2>1, <2>2, RecognitionTypes DEF RecognitionInv
  <2>4. /\ scan'[w] = r /\ r.at = "finish" /\ r.sheet = s /\ r.form = scan[w].form /\ r.told = scan[w].told
        /\ r.behind = scan[w].behind
    BY <1>2, <2>2, <2>3 DEF ScanRecord
  <2>5. FitsRows(scan[w], sheet[s])'
    BY <1>1, <1>2, <2>1, <2>4 DEF FitsRows
  <2>6. ScanOK(w)'
    BY <2>4, <2>5 DEF ScanOK
  <2> QED  BY <1>1, <2>1, <2>3, <2>6, SameIsQuiet, QuietStep
<1> QED  BY <1>4, <1>5

-----------------------------------------------------------------------------
(* Numbers and purposes.                                                     *)

(* The number changes and every other reader's client is old.                *)
LEMMA NumberChanges ==
  ASSUME RecognitionInv, UNCHANGED <<sheet, purpose>>, passport' \in Entry, scan' \in [Scanners -> ScanRecord],
         NEW D \in SUBSET Scanners,
         \A v \in D : SameScan(scan[v], scan'[v]) /\ (scan[v].at # "idle" => "passport" \in scan'[v].behind),
         \A v \in Scanners : v \notin D => ScanOK(v)'
  PROVE  RecognitionInv'
<1>1. RecognitionTypeOK'
  BY RecognitionTypes DEF RecognitionInv, RecognitionTypeOK, SheetRecord, ScanRecord
<1>2. ASSUME NEW v \in D PROVE ScanOK(v)'
  BY OthersKeep DEF SamePaper
<1>3. \A s \in Sheets : Quiet(sheet[s], sheet'[s])
  BY SameIsQuiet
<1> QED  BY <1>1, <1>2, <1>3, QuietSheets DEF RecognitionInv

LEMMA EnterPassportKeeps ==
  ASSUME RecognitionInv, NEW value \in {Blank, "staff"}, EnterPassport(value)
  PROVE  RecognitionInv'
<1>1. scan \in [Scanners -> ScanRecord] /\ passport' \in Entry /\ UNCHANGED <<sheet, purpose>> /\ scan' = Outdate("passport", Scanners)
  BY RecognitionTypes DEF RecognitionInv, EnterPassport, Entry
<1>2. /\ scan' \in [Scanners -> ScanRecord]
      /\ \A v \in Scanners : SameScan(scan[v], scan'[v]) /\ (scan[v].at # "idle" => "passport" \in scan'[v].behind)
  BY <1>1, OutdateIs
<1> QED  BY <1>1, <1>2, NumberChanges

LEMMA ReadPassportKeeps == ASSUME RecognitionInv, NEW w \in Scanners, ReadPassport(w) PROVE RecognitionInv'
<1>1. Reads(w) /\ scan[w].at = "reading" /\ scan[w].form = "passport" /\ UNCHANGED <<sheet, purpose>>
  BY DEF ReadPassport, Reads
<1>2. PICK s \in Sheets : s = scan[w].sheet /\ FitsRows(scan[w], sheet[s]) /\ SheetOK(s)
  BY <1>1, ReaderHasPaper
<1>3. sheet[s].month = Blank
  <2>1. "passport" \in FormsOf(sheet[s].slot)
    BY <1>1, <1>2 DEF FitsRows, SheetOK
  <2>2. sheet[s].slot # "rca"
    BY <2>1 DEF FormsOf
  <2> QED  BY <1>2, <2>2 DEF SheetOK
<1>4. CASE LacksNumber(w)
  <2> DEFINE old == Outdate("passport", Scanners \ {w})
  <2>1. passport' = "paper" /\ scan' = [old EXCEPT ![w].at = "finish"]
    BY <1>4 DEF ReadPassport
  <2>2. scan \in [Scanners -> ScanRecord]
    BY RecognitionTypes DEF RecognitionInv
  <2>3. /\ old \in [Scanners -> ScanRecord]
        /\ \A v \in Scanners : SameScan(scan[v], old[v])
        /\ \A v \in Scanners : scan[v].at # "idle" /\ v # w => "passport" \in old[v].behind
    BY <2>2, OutdateIs
  <2> HIDE DEF old
  <2>4. PICK r \in ScanRecord : r = [old[w] EXCEPT !.at = "finish"]
    BY <2>3 DEF ScanRecord
  <2>5. scan' \in [Scanners -> ScanRecord] /\ scan'[w] = r /\ \A v \in Scanners : v # w => scan'[v] = old[v]
    BY <2>1, <2>3, <2>4
  <2>6. r.at = "finish" /\ r.sheet = s /\ r.form = scan[w].form /\ r.told = scan[w].told
    BY <1>2, <2>3, <2>4 DEF SameScan, ScanRecord
  <2>7. FitsRows(scan[w], sheet[s])'
    BY <1>1, <1>2, <1>3, <2>5, <2>6 DEF FitsRows
  <2>8. ScanOK(w)'
    BY <2>5, <2>6, <2>7 DEF ScanOK
  <2>9. \A v \in Scanners \ {w} : SameScan(scan[v], scan'[v]) /\ (scan[v].at # "idle" => "passport" \in scan'[v].behind)
    BY <2>3, <2>5
  <2>10. passport' \in Entry
    BY <2>1 DEF Entry
  <2> QED  BY <1>1, <2>5, <2>8, <2>9, <2>10, NumberChanges
<1>5. CASE ~LacksNumber(w)
  BY <1>1, <1>2, <1>3, <1>5, ToTheEnd DEF ReadPassport
<1> QED  BY <1>4, <1>5

(* The purpose of a case changes and every other confirmation of it is old.  *)
LEMMA PurposeChanges ==
  ASSUME RecognitionInv, UNCHANGED <<sheet, passport>>, purpose' \in [Files -> Entry], scan' \in [Scanners -> ScanRecord],
         NEW c \in Files, \A k \in Files : k # c => purpose'[k] = purpose[k],
         NEW D \in SUBSET Scanners,
         \A v \in D : /\ SameScan(scan[v], scan'[v])
                      /\ scan[v].at # "idle" /\ sheet[scan[v].sheet].file = c => "purpose" \in scan'[v].behind,
         \A v \in Scanners : v \notin D => ScanOK(v)'
  PROVE  RecognitionInv'
<1>1. RecognitionTypeOK' /\ sheet \in [Sheets -> SheetRecord]
  BY RecognitionTypes DEF RecognitionInv, RecognitionTypeOK, SheetRecord, ScanRecord
<1>2. ASSUME NEW v \in D PROVE ScanOK(v)'
  <2>1. scan[v].at # "idle" => sheet[scan[v].sheet].file \in Files
    BY <1>1 DEF RecognitionInv, ScanOK, SheetRecord
  <2>2. /\ SameScan(scan[v], scan'[v])
        /\ scan[v].at # "idle" /\ sheet[scan[v].sheet].file = c => "purpose" \in scan'[v].behind
    BY <1>2
  <2>3. scan[v].at # "idle" =>
           /\ SamePaper(sheet[scan[v].sheet], sheet'[scan[v].sheet])
           /\ purpose'[sheet[scan[v].sheet].file] # purpose[sheet[scan[v].sheet].file] => "purpose" \in scan'[v].behind
           /\ sheet'[scan[v].sheet].month = sheet[scan[v].sheet].month
    BY <2>1, <2>2 DEF SamePaper
  <2> QED  BY <2>2, <2>3, OthersKeep
<1>3. \A s \in Sheets : Quiet(sheet[s], sheet'[s])
  BY SameIsQuiet
<1> QED  BY <1>1, <1>2, <1>3, QuietSheets DEF RecognitionInv

LEMMA EnterPurposeKeeps ==
  ASSUME RecognitionInv, NEW c \in Files, NEW value \in {Blank, "staff"}, EnterPurpose(c, value)
  PROVE  RecognitionInv'
<1> DEFINE D == {w \in Scanners : scan[w].at # "idle" /\ sheet[scan[w].sheet].file = c}
<1>1. /\ scan \in [Scanners -> ScanRecord] /\ UNCHANGED <<sheet, passport>> /\ scan' = Outdate("purpose", D)
      /\ purpose \in [Files -> Entry] /\ purpose' = [purpose EXCEPT ![c] = value]
  BY RecognitionTypes DEF RecognitionInv, EnterPurpose
<1>2. purpose' \in [Files -> Entry] /\ \A k \in Files : k # c => purpose'[k] = purpose[k]
  BY <1>1 DEF Entry
<1>3. /\ scan' \in [Scanners -> ScanRecord]
      /\ \A v \in Scanners : /\ SameScan(scan[v], scan'[v])
                             /\ scan[v].at # "idle" /\ sheet[scan[v].sheet].file = c => "purpose" \in scan'[v].behind
  BY <1>1, OutdateIs
<1> HIDE DEF D
<1> QED  BY <1>1, <1>2, <1>3, PurposeChanges

LEMMA ConfirmSaveKeeps ==
  ASSUME RecognitionInv, NEW w \in Scanners, NEW given \in BOOLEAN, ConfirmSave(w, given)
  PROVE  RecognitionInv'
<1>1. scan[w].at = "confirming" /\ UNCHANGED <<sheet, passport>>
  BY DEF ConfirmSave
<1>2. PICK s \in Sheets, c \in Files : s = scan[w].sheet /\ c = sheet[s].file
  BY <1>1, ReaderHasPaper DEF SheetRecord
<1>3. CASE FillsPurpose(w, given)
  <2> DEFINE D == {v \in Scanners \ {w} : scan[v].at # "idle" /\ sheet[scan[v].sheet].file = c}
             old == Outdate("purpose", D)
  <2>1. purpose' = [purpose EXCEPT ![c] = "paper"] /\ scan' = [old EXCEPT ![w] = NoScan]
    BY <1>2, <1>3 DEF ConfirmSave, Paper
  <2>2. scan \in [Scanners -> ScanRecord] /\ purpose \in [Files -> Entry]
    BY RecognitionTypes DEF RecognitionInv
  <2>3. /\ old \in [Scanners -> ScanRecord]
        /\ \A v \in Scanners : SameScan(scan[v], old[v])
        /\ \A v \in Scanners : v # w /\ scan[v].at # "idle" /\ sheet[scan[v].sheet].file = c => "purpose" \in old[v].behind
    BY <2>2, OutdateIs
  <2> HIDE DEF old, D
  <2>4. scan' \in [Scanners -> ScanRecord] /\ scan'[w].at = "idle" /\ \A v \in Scanners : v # w => scan'[v] = old[v]
    BY <2>1, <2>3, NothingIsTyped
  <2>5. purpose' \in [Files -> Entry] /\ \A k \in Files : k # c => purpose'[k] = purpose[k]
    BY <2>1, <2>2 DEF Entry
  <2>o. PICK others \in SUBSET Scanners : others = Scanners \ {w}
    OBVIOUS
  <2>6. \A v \in others : /\ SameScan(scan[v], scan'[v])
                          /\ scan[v].at # "idle" /\ sheet[scan[v].sheet].file = c => "purpose" \in scan'[v].behind
    BY <2>o, <2>3, <2>4
  <2>7. \A v \in Scanners : v \notin others => ScanOK(v)'
    BY <2>o, <2>4, IdleIsOK
  <2> QED  BY <1>1, <2>4, <2>5, <2>6, <2>7, PurposeChanges
<1>4. CASE ~FillsPurpose(w, given)
  <2>1. UNCHANGED <<sheet, passport, purpose>> /\ PutDown(w)
    BY <1>4 DEF ConfirmSave, PutDown
  <2> QED  BY <2>1, SameAndDone
<1> QED  BY <1>3, <1>4

-----------------------------------------------------------------------------
LEMMA RecognitionStep == RecognitionInv /\ [RecognitionNext]_recognitionVars => RecognitionInv'
<1>1. ASSUME RecognitionInv, UNCHANGED recognitionVars PROVE RecognitionInv'
  <2>1. UNCHANGED <<sheet, passport, purpose, scan>>
    BY <1>1 DEF recognitionVars
  <2>2. sheet' \in [Sheets -> SheetRecord] /\ \A s \in Sheets : Quiet(sheet[s], sheet'[s])
    BY <1>1, <2>1, SameIsQuiet, RecognitionTypes DEF RecognitionInv
  <2> QED  BY <1>1, <2>1, <2>2, QuietForAll
<1>2. ASSUME RecognitionInv, NEW w \in Scanners, KeyIsAway(w) PROVE RecognitionInv'
  BY <1>2, FailDocumentKeeps DEF KeyIsAway
<1>3. ASSUME RecognitionInv,
             UploadNext(Sheets, {p \in Slots \X UNION {Prints(slot) : slot \in Slots} : p[2] \in Prints(p[1])})
      PROVE  RecognitionInv'
  BY <1>3, UploadKeeps DEF UploadNext
<1>4. ASSUME RecognitionInv, QueueNext PROVE RecognitionInv'
  BY <1>4, QueueKeeps, ClaimKeeps DEF QueueNext
<1>5. ASSUME RecognitionInv, ReaderNext PROVE RecognitionInv'
  BY <1>5, ReadToEndKeeps, ReadPassportKeeps, ReadWezwanieKeeps, ReadRegistrationKeeps, ReadMonthKeeps, AssignMonthKeeps,
     FinishKeeps DEF ReaderNext
<1>6. ASSUME RecognitionInv, FailureNext PROVE RecognitionInv'
  BY <1>2, <1>6, IllegibleKeeps DEF FailureNext
<1>7. ASSUME RecognitionInv, NumberEntryNext \/ PurposeNext PROVE RecognitionInv'
  BY <1>7, EnterPassportKeeps, EnterPurposeKeeps, ConfirmReadKeeps, ConfirmSaveKeeps DEF NumberEntryNext, PurposeNext
<1> QED  BY <1>1, <1>3, <1>4, <1>5, <1>6, <1>7 DEF RecognitionNext

LEMMA RecognitionInvHolds == RecognitionSpec => []RecognitionInv
<1>1. RecognitionInit => RecognitionInv
  <2> SUFFICES ASSUME RecognitionInit PROVE RecognitionInv
    OBVIOUS
  <2>1. /\ sheet = [s \in Sheets |-> NoSheet] /\ passport = Blank /\ purpose = [c \in Files |-> Blank]
        /\ scan = [w \in Scanners |-> NoScan]
    BY DEF RecognitionInit
  <2>2. RecognitionTypeOK
    BY <2>1, NothingIsTyped, RecognitionTypes DEF Entry
  <2>3. NoSheet.month = Blank /\ ~NoSheet.live
    BY DEF NoSheet
  <2>4. \A s \in Sheets : SheetOK(s)
    BY <2>1, <2>3, NothingIsTyped DEF SheetOK
  <2>5. ReportsStandAlone
    BY <2>1, <2>3 DEF ReportsStandAlone
  <2>6. \A w \in Scanners : ScanOK(w)
    BY <2>1, NothingIsTyped DEF ScanOK
  <2> QED  BY <2>2, <2>4, <2>5, <2>6 DEF RecognitionInv
<1> QED  BY <1>1, RecognitionStep, PTL DEF RecognitionSpec

(* For any papers, readers and cases: what the staff typed gives way to what *)
(* was read off a paper only where the reader or the confirmation had loaded *)
(* the row before it was typed, and every such reader is known to be behind  *)
(* (document_job_processors.py:236-241, document_workflow_wezwanie.py:115).  *)
THEOREM StaffEntriesAreKept == RecognitionSpec => StaffEntriesStand
<1> DEFINE A ==
       /\ passport = "staff" /\ passport' = "paper" =>
             \E w \in Scanners : scan[w].form = "passport" /\ scan'[w] # scan[w] /\ "passport" \in scan[w].behind
       /\ \A c \in Files : purpose[c] = "staff" /\ purpose'[c] = "paper" =>
             \E w \in Scanners : scan[w].at = "confirming" /\ scan'[w] # scan[w] /\ "purpose" \in scan[w].behind
<1>1. ASSUME RecognitionInv, RecognitionNext PROVE A
  <2>0. Blank # "staff" /\ Blank # "paper"
    BY RecognitionAssumption
  <2>1. ASSUME passport = "staff", passport' = "paper"
        PROVE  \E w \in Scanners : scan[w].form = "passport" /\ scan'[w] # scan[w] /\ "passport" \in scan[w].behind
    <3>1. PICK w \in Scanners : ReadPassport(w) /\ LacksNumber(w)
      BY <1>1, <2>0, <2>1 DEF RecognitionNext, UploadNext, UploadSheet, QueueNext, DeleteSheet, LoseLease, ClaimSheet,
         ReaderNext, ReadCompany, ReadLease, ReadPolicy, ReadToEnd, ReadPassport, ReadWezwanie, ReadRegistration, ReadMonth,
         AssignMonth, FinishSheet, FailureNext, KeyIsAway, Illegible, FailDocument, NumberEntryNext, EnterPassport,
         PurposeNext, EnterPurpose, ConfirmRead, ConfirmSave
    <3>2. scan[w].at = "reading" /\ scan[w].form = "passport" /\ scan[w].passport = Blank
      BY <3>1 DEF ReadPassport, Reads, LacksNumber
    <3>3. "passport" \in scan[w].behind
      BY <1>1, <2>0, <2>1, <3>2 DEF RecognitionInv, ScanOK, FitsRows
    <3>4. scan'[w].at = "finish"
      <4>1. scan \in [Scanners -> ScanRecord]
        BY <1>1, RecognitionTypes DEF RecognitionInv
      <4>2. Outdate("passport", Scanners \ {w}) \in [Scanners -> ScanRecord]
        BY <4>1, OutdateIs
      <4>3. scan' = [Outdate("passport", Scanners \ {w}) EXCEPT ![w].at = "finish"]
        BY <3>1 DEF ReadPassport
      <4> QED  BY <4>2, <4>3 DEF ScanRecord
    <3> QED  BY <3>2, <3>3, <3>4
  <2>2. ASSUME NEW c \in Files, purpose[c] = "staff", purpose'[c] = "paper"
        PROVE  \E w \in Scanners : scan[w].at = "confirming" /\ scan'[w] # scan[w] /\ "purpose" \in scan[w].behind
    <3>0. purpose \in [Files -> Entry] /\ scan \in [Scanners -> ScanRecord]
      BY <1>1, RecognitionTypes DEF RecognitionInv
    <3>1. PICK w \in Scanners, given \in BOOLEAN : ConfirmSave(w, given)
      BY <1>1, <2>0, <2>2, <3>0 DEF RecognitionNext, UploadNext, UploadSheet, QueueNext, DeleteSheet, LoseLease, ClaimSheet,
         ReaderNext, ReadCompany, ReadLease, ReadPolicy, ReadToEnd, ReadPassport, ReadWezwanie, ReadRegistration, ReadMonth,
         AssignMonth, FinishSheet, FailureNext, KeyIsAway, Illegible, FailDocument, NumberEntryNext, EnterPassport,
         PurposeNext, EnterPurpose, ConfirmRead
    <3>2. scan[w].at = "confirming" /\ scan[w].purpose = Blank /\ Paper(w).file = c
      BY <2>2, <3>0, <3>1 DEF ConfirmSave, FillsPurpose
    <3>3. "purpose" \in scan[w].behind
      BY <1>1, <2>0, <2>2, <3>2 DEF RecognitionInv, ScanOK, FitsRows, Paper
    <3>4. scan'[w] = NoScan
      <4>1. FillsPurpose(w, given)
        BY <2>2, <3>1 DEF ConfirmSave
      <4>2. PICK D : scan' = [Outdate("purpose", D) EXCEPT ![w] = NoScan]
        BY <3>1, <4>1 DEF ConfirmSave
      <4>3. Outdate("purpose", D) \in [Scanners -> ScanRecord]
        BY <3>0, OutdateIs
      <4> QED  BY <4>2, <4>3
    <3> QED  BY <3>2, <3>3, <3>4, NothingIsTyped
  <2> QED  BY <2>1, <2>2
<1>2. RecognitionInv /\ [RecognitionNext]_recognitionVars => [A]_recognitionVars
  BY <1>1
<1>3. StaffEntriesStand <=> [][A]_recognitionVars
  BY DEF StaffEntriesStand
<1> QED  BY <1>2, <1>3, RecognitionInvHolds, PTL DEF RecognitionSpec

(* A reader leaves its paper at the end of it by finishing, and no other way. *)
LEMMA OnlyFinishEnds ==
  ASSUME RecognitionInv, RecognitionNext, NEW w \in Scanners, scan[w].at = "finish", scan'[w].at = "idle"
  PROVE  FinishSheet(w)
<1>0. scan \in [Scanners -> ScanRecord]
  BY RecognitionTypes DEF RecognitionInv
<1>1. ASSUME NEW field \in {"passport", "purpose", "month"}, NEW D
      PROVE  Outdate(field, D) \in [Scanners -> ScanRecord] /\ \A v \in Scanners : Outdate(field, D)[v].at = scan[v].at
  BY <1>0, OutdateIs DEF SameScan
<1>2. scan' # scan
  OBVIOUS
<1>3. ~NumberEntryNext /\ \A c \in Files, value \in {Blank, "staff"} : ~EnterPurpose(c, value)
  BY <1>1 DEF NumberEntryNext, EnterPassport, EnterPurpose
<1>4. \A s \in Sheets : ~DeleteSheet(s) /\ ~LoseLease(s)
  BY <1>2 DEF DeleteSheet, LoseLease
<1>5. ASSUME NEW v \in Scanners, NEW s \in Sheets PROVE ~ClaimSheet(v, s) /\ ~ConfirmRead(v, s)
  BY <1>0 DEF ClaimSheet, ConfirmRead, LoadRows
<1>6. ASSUME NEW v \in Scanners, PutDown(v) PROVE v = w
  BY <1>0, <1>6 DEF PutDown
<1>7. ASSUME NEW v \in Scanners, NEW given \in BOOLEAN PROVE ~ConfirmSave(v, given)
  <2> SUFFICES ASSUME ConfirmSave(v, given) PROVE FALSE
    OBVIOUS
  <2>1. PICK old \in [Scanners -> ScanRecord] : (\A u \in Scanners : old[u].at = scan[u].at) /\ scan' = [old EXCEPT ![v] = NoScan]
    BY <1>0, <1>1 DEF ConfirmSave
  <2>2. v = w
    BY <2>1
  <2> QED  BY <2>2 DEF ConfirmSave
<1>8. ASSUME NEW v \in Scanners PROVE ~KeyIsAway(v) /\ ~Illegible(v) /\ ~ReadWezwanie(v)
  BY <1>6 DEF KeyIsAway, Illegible, FailDocument, ReadWezwanie, Reads
<1>9. ASSUME NEW v \in Scanners, NEW m, WriteMonth(v, m) PROVE FALSE
  <2>1. PICK old \in [Scanners -> ScanRecord] :
           (\A u \in Scanners : old[u].at = scan[u].at) /\ scan' = [old EXCEPT ![v].at = "finish", ![v].told = m]
    BY <1>1, <1>9 DEF WriteMonth
  <2>2. scan'[w].at \in {"finish", old[w].at}
    BY <2>1 DEF ScanRecord
  <2> QED  BY <2>1, <2>2
<1>10. ASSUME NEW v \in Scanners, scan' = [scan EXCEPT ![v].at = "finish"] PROVE FALSE
  BY <1>0, <1>10 DEF ScanRecord
<1>11. ASSUME NEW v \in Scanners, ReadMonth(v) PROVE FALSE
  <2>1. PICK at \in {"finish", "assign"} : scan' = [scan EXCEPT ![v].at = at, ![v].told = scan[v].month]
    BY <1>11 DEF ReadMonth
  <2> QED  BY <1>0, <2>1 DEF ScanRecord
<1>12. ASSUME NEW v \in Scanners PROVE ~ReadCompany(v) /\ ~ReadLease(v) /\ ~ReadPolicy(v) /\ ~ReadRegistration(v) /\ ~AssignMonth(v)
  BY <1>9, <1>10 DEF ReadCompany, ReadLease, ReadPolicy, ReadToEnd, ReadRegistration, AssignMonth
<1>13. ASSUME NEW v \in Scanners, ReadPassport(v) PROVE FALSE
  <2>1. CASE LacksNumber(v)
    <3>1. PICK old \in [Scanners -> ScanRecord] :
             (\A u \in Scanners : old[u].at = scan[u].at) /\ scan' = [old EXCEPT ![v].at = "finish"]
      BY <1>1, <1>13, <2>1 DEF ReadPassport
    <3> QED  BY <3>1 DEF ScanRecord
  <2>2. CASE ~LacksNumber(v)
    BY <1>10, <1>13, <2>2 DEF ReadPassport
  <2> QED  BY <2>1, <2>2
<1>14. \A v \in Scanners : FinishSheet(v) => v = w
  BY <1>6 DEF FinishSheet
<1>15. ~UploadNext(Sheets, {p \in Slots \X UNION {Prints(slot) : slot \in Slots} : p[2] \in Prints(p[1])})
  BY <1>2 DEF UploadNext, UploadSheet
<1> QED
  BY <1>3, <1>4, <1>5, <1>7, <1>8, <1>11, <1>12, <1>13, <1>14, <1>15
  DEF RecognitionNext, QueueNext, ReaderNext, FailureNext, PurposeNext

(* No two live reports of a case are for one month, a registration form that *)
(* was read has none, and a payload tells the month of its row unless a      *)
(* second reader wrote it (document.py:255-263,                              *)
(* document_workflow_zus.py:75-109, document_job_processors.py:463-486).     *)
THEOREM WrittenMonthsAreTrue == RecognitionSpec => MonthsAreTrue
<1> DEFINE A == \A w \in Scanners :
                   scan[w].at = "finish" /\ scan'[w].at = "idle" /\ "month" \notin scan[w].behind
                   => sheet'[scan[w].sheet].told = sheet'[scan[w].sheet].month
<1>1. RecognitionInv => ReportsStandAlone /\ RegistrationHasNoMonth
  BY DEF RecognitionInv, RegistrationHasNoMonth, SheetOK
<1>2. ASSUME RecognitionInv, RecognitionNext PROVE A
  <2> SUFFICES ASSUME NEW w \in Scanners, scan[w].at = "finish", scan'[w].at = "idle", "month" \notin scan[w].behind
               PROVE  sheet'[scan[w].sheet].told = sheet'[scan[w].sheet].month
    OBVIOUS
  <2>1. PICK s \in Sheets : s = scan[w].sheet /\ FitsRows(scan[w], sheet[s]) /\ sheet[s] \in SheetRecord
    BY <1>2, ReaderHasPaper
  <2>2. FinishSheet(w)
    BY <1>2, OnlyFinishEnds
  <2>3. sheet \in [Sheets -> SheetRecord]
    BY <1>2, RecognitionTypes DEF RecognitionInv
  <2>4. sheet'[s].told = scan[w].told /\ sheet'[s].month = sheet[s].month
    BY <2>1, <2>2, <2>3 DEF FinishSheet, SheetRecord
  <2> QED  BY <2>1, <2>4 DEF FitsRows
<1>3. RecognitionInv /\ [RecognitionNext]_recognitionVars => [A]_recognitionVars
  BY <1>2
<1>4. MonthsAreTrue <=> [](ReportsStandAlone /\ RegistrationHasNoMonth) /\ [][A]_recognitionVars
  BY DEF MonthsAreTrue
<1> QED  BY <1>1, <1>3, <1>4, RecognitionInvHolds, PTL DEF RecognitionSpec

-----------------------------------------------------------------------------
(* The months (ZusMonths): counted since year 0, they are the integers.      *)
CalendarMonths == [year : Int, month : 1..12]

LEMMA FirstMonthType == FirstMonth.year \in Nat \ {0} /\ FirstMonth.month \in 1..12 /\ NumMonths \in Nat \ {0}
  BY ZusMonthsAssumption

LEMMA MonthArithmetic ==
  ASSUME NEW y \in Int, NEW n \in Int
  PROVE  /\ y + n \div 12 \in Int /\ (n % 12) + 1 \in 1..12
         /\ 12 * (y + n \div 12) + ((n % 12) + 1) = 12 * y + n + 1
<1>1. n = 12 * (n \div 12) + (n % 12) /\ n % 12 \in 0..11 /\ n \div 12 \in Int
  OBVIOUS
<1> DEFINE d == n \div 12
           r == n % 12
<1>2. n = 12 * d + r /\ r \in 0..11 /\ d \in Int
  BY <1>1
<1> HIDE DEF d, r
<1>3. y + d \in Int /\ r + 1 \in 1..12 /\ 12 * (y + d) + (r + 1) = 12 * y + n + 1
  BY <1>2
<1> QED  BY <1>3 DEF d, r

LEMMA AddMonthsAdds ==
  ASSUME NEW v, v.year \in Int, v.month \in 1..12, NEW k \in Int
  PROVE  /\ AddMonths(v, k) \in CalendarMonths
         /\ Index(AddMonths(v, k)) = Index(v) + k
<1> DEFINE n == v.month - 1 + k
<1>1. n \in Int
  OBVIOUS
<1>2. AddMonths(v, k) = [year |-> v.year + n \div 12, month |-> (n % 12) + 1]
  BY DEF AddMonths
<1>3. 12 * v.year + n + 1 = Index(v) + k
  BY DEF Index
<1> HIDE DEF n
<1>4. /\ v.year + n \div 12 \in Int /\ (n % 12) + 1 \in 1..12
      /\ 12 * (v.year + n \div 12) + ((n % 12) + 1) = 12 * v.year + n + 1
  BY <1>1, MonthArithmetic
<1> QED  BY <1>2, <1>3, <1>4 DEF CalendarMonths, Index

LEMMA MonthsAreOrdered ==
  ASSUME NEW a \in CalendarMonths, NEW b \in CalendarMonths
  PROVE  /\ Index(a) \in Int /\ Index(b) \in Int
         /\ Before(a, b) <=> Index(a) < Index(b)
         /\ a = b <=> Index(a) = Index(b)
         /\ NotAfter(a, b) <=> Index(a) <= Index(b)
<1>1. a = [year |-> a.year, month |-> a.month] /\ b = [year |-> b.year, month |-> b.month]
  BY DEF CalendarMonths
<1>2. a.year \in Int /\ b.year \in Int /\ a.month \in 1..12 /\ b.month \in 1..12
  BY DEF CalendarMonths
<1>3. Index(a) \in Int /\ Index(b) \in Int /\ (Before(a, b) <=> Index(a) < Index(b))
  BY <1>2 DEF Before, Index
<1>4. Index(a) = Index(b) => a.year = b.year /\ a.month = b.month
  BY <1>2 DEF Index
<1>5. a = b <=> Index(a) = Index(b)
  BY <1>1, <1>4
<1> QED  BY <1>3, <1>5 DEF NotAfter

LEMMA DaysHaveMonths ==
  ASSUME NEW d \in DaysInSight
  PROVE  d.month \in CalendarMonths /\ d.day \in 1..28 /\ Index(d.month) >= Index(FirstMonth) /\ d # NoDay
<1>1. PICK k \in 0..NumMonths - 1 : d.month = AddMonths(FirstMonth, k)
  BY DEF DaysInSight
<1>2. d.day \in 1..28
  BY ZusMonthsAssumption DEF DaysInSight
<1>3. d.month \in CalendarMonths /\ Index(d.month) = Index(FirstMonth) + k /\ k \in Nat
  <2>1. k \in Int /\ k \in Nat
    BY FirstMonthType
  <2> QED  BY <1>1, <2>1, FirstMonthType, AddMonthsAdds
<1>4. Index(FirstMonth) \in Int /\ Index(FirstMonth) > 12
  BY FirstMonthType DEF Index
<1>5. NoDay.month.year = 0 /\ NoDay.month.month = 1 /\ Index(NoDay.month) = 1
  BY DEF NoDay, Index
<1> QED  BY <1>2, <1>3, <1>4, <1>5

LEMMA HorizonMonths ==
  ASSUME NEW m \in Horizon
  PROVE  m \in CalendarMonths
<1>1. PICK k \in -3..NumMonths : m = AddMonths(FirstMonth, k)
  BY DEF Horizon
<1>2. k \in Int
  BY FirstMonthType
<1> QED  BY <1>1, <1>2, FirstMonthType, AddMonthsAdds

(* There is a first day in sight.                                            *)
LEMMA FirstDayInSight == FirstDay \in DaysInSight
<1>1. PICK n \in DaysSeen : \A k \in DaysSeen : n <= k
  BY ZusMonthsAssumption, LeastNatural
<1> DEFINE d == [month |-> AddMonths(FirstMonth, 0), day |-> n]
<1>2. d \in DaysInSight
  BY FirstMonthType DEF DaysInSight
<1>3. d.month \in CalendarMonths /\ Index(d.month) = Index(FirstMonth) /\ d.day = n
  <2>1. Index(FirstMonth) \in Int
    BY FirstMonthType DEF Index
  <2> QED  BY <2>1, FirstMonthType, AddMonthsAdds
<1> HIDE DEF d
<1>4. ASSUME NEW e \in DaysInSight PROVE d = e \/ Earlier(d, e)
  <2>1. e.month \in CalendarMonths /\ Index(e.month) >= Index(d.month) /\ e.day \in DaysSeen
    BY <1>3, DaysHaveMonths DEF DaysInSight
  <2>2. Before(d.month, e.month) \/ d.month = e.month
    BY <1>3, <2>1, MonthsAreOrdered
  <2>3. n <= e.day /\ n \in Int /\ e.day \in Int
    BY <1>1, <2>1, ZusMonthsAssumption
  <2>4. d = [month |-> d.month, day |-> d.day] /\ e = [month |-> e.month, day |-> e.day]
    BY <1>2 DEF DaysInSight
  <2> QED  BY <1>3, <2>2, <2>3, <2>4 DEF Earlier
<1>5. \E x \in DaysInSight : \A e \in DaysInSight : x = e \/ Earlier(x, e)
  BY <1>2, <1>4
<1> QED  BY <1>5 DEF FirstDay

LEMMA ZusTypeHolds == ZusSpec => []ZusTypeOK
<1>1. ZusInit => ZusTypeOK
  BY FirstDayInSight DEF ZusInit, ZusTypeOK
<1>2. ZusTypeOK /\ [ZusNext]_zusVars => ZusTypeOK'
  BY DEF ZusTypeOK, ZusNext, zusVars, DayComes, SetHearing, SetStage, FilePaper, TogglePaper, ArchivePaper
<1> QED  BY <1>1, <1>2, PTL DEF ZusSpec

-----------------------------------------------------------------------------
(* The parts of the list, counted in months. *)

LEMMA HeardIsCounted ==
  ASSUME ZusTypeOK
  PROVE  Heard <=> /\ case.hearing \in DaysInSight
                   /\ \/ Index(case.hearing.month) < Index(today.month)
                      \/ case.hearing.month = today.month /\ case.hearing.day <= today.day
<1>1. today \in DaysInSight /\ case.hearing \in DaysInSight \union {NoDay}
  BY DEF ZusTypeOK
<1>2. CASE case.hearing = NoDay
  BY <1>2, DaysHaveMonths DEF Heard
<1>3. CASE case.hearing \in DaysInSight
  <2> DEFINE h == case.hearing
  <2>1. /\ h.month \in CalendarMonths /\ h.day \in 1..28 /\ h # NoDay
        /\ today.month \in CalendarMonths /\ today.day \in 1..28
    BY <1>1, <1>3, DaysHaveMonths
  <2> HIDE DEF h
  <2>2. /\ Index(h.month) \in Int /\ Index(today.month) \in Int
        /\ Before(today.month, h.month) <=> Index(today.month) < Index(h.month)
        /\ today.month = h.month <=> Index(today.month) = Index(h.month)
    BY <2>1, MonthsAreOrdered
  <2>3. ~Earlier(today, h) <=> \/ Index(h.month) < Index(today.month)
                               \/ h.month = today.month /\ h.day <= today.day
    BY <2>1, <2>2 DEF Earlier
  <2> QED  BY <1>3, <2>1, <2>3 DEF Heard, h
<1> QED  BY <1>1, <1>2, <1>3

LEMMA OutIsCounted ==
  ASSUME ZusTypeOK, NEW m \in CalendarMonths
  PROVE  NotAfter(m, LastExpected) <=> IsOut(m)
<1> DEFINE k == IF today.day >= 17 THEN -1 ELSE -2
<1>1. today.month \in CalendarMonths /\ today.day \in 1..28
  BY DaysHaveMonths DEF ZusTypeOK
<1>2. k \in Int /\ LastExpected = AddMonths(today.month, k)
  BY DEF LastExpected
<1> HIDE DEF k
<1>3. LastExpected \in CalendarMonths /\ Index(LastExpected) = Index(today.month) + k
  BY <1>1, <1>2, AddMonthsAdds DEF CalendarMonths
<1>4. NotAfter(m, LastExpected) <=> Index(m) <= Index(today.month) + k
  BY <1>3, MonthsAreOrdered
<1>5. Index(m) \in Int /\ Index(today.month) \in Int
  BY <1>1, MonthsAreOrdered
<1> QED  BY <1>1, <1>4, <1>5 DEF IsOut, k

LEMMA ZusIsExact == ASSUME ZusTypeOK PROVE MissingIsExact
<1> SUFFICES ASSUME NEW m \in Horizon
             PROVE  m \in MissingZusMonths <=>
                      /\ case.stage = "waiting_decision" /\ ~case.decided
                      /\ case.hearing \in DaysInSight
                      /\ \/ Index(case.hearing.month) < Index(today.month)
                         \/ case.hearing.month = today.month /\ case.hearing.day <= today.day
                      /\ Index(m) >= Index(case.hearing.month) - 2
                      /\ IsOut(m)
                      /\ \A p \in Papers : filed[p] = "verified" =>
                             /\ p[1] = "rca" => p[2] # m
                             /\ p[1] = "policy" => Index(p[2]) < Index(m)
  BY DEF MissingIsExact
<1>1. m \in CalendarMonths
  BY HorizonMonths
<1>2. Heard => (m \in ExpectedZusMonths <=> Index(m) >= Index(case.hearing.month) - 2 /\ IsOut(m))
  <2> SUFFICES ASSUME Heard
               PROVE  NotAfter(AddMonths(case.hearing.month, -2), m) <=> Index(m) >= Index(case.hearing.month) - 2
    BY <1>1, OutIsCounted DEF ExpectedZusMonths, IterMonths
  <2>1. case.hearing.month \in CalendarMonths
    BY HeardIsCounted, DaysHaveMonths
  <2> DEFINE start == AddMonths(case.hearing.month, -2)
  <2>2. start \in CalendarMonths /\ Index(start) = Index(case.hearing.month) + (-2)
    <3> DEFINE h == case.hearing.month
               two == -2
    <3>1. h.year \in Int /\ h.month \in 1..12 /\ two \in Int
      BY <2>1 DEF CalendarMonths
    <3> HIDE DEF h, two
    <3>2. AddMonths(h, two) \in CalendarMonths /\ Index(AddMonths(h, two)) = Index(h) + two
      BY <3>1, AddMonthsAdds
    <3> QED  BY <3>2 DEF h, two
  <2> HIDE DEF start
  <2>3. Index(start) \in Int /\ Index(m) \in Int /\ Index(case.hearing.month) \in Int
        /\ (NotAfter(start, m) <=> Index(start) <= Index(m))
    BY <1>1, <2>1, <2>2, MonthsAreOrdered
  <2>4. NotAfter(start, m) <=> Index(m) >= Index(case.hearing.month) - 2
    BY <2>2, <2>3
  <2> QED  BY <2>4 DEF start
<1>3. m \notin Verified("rca") <=> \A p \in Papers : filed[p] = "verified" => (p[1] = "rca" => p[2] # m)
  BY DEF Verified
<1>4. (\A until \in Verified("policy") : Before(until, m))
         <=> \A p \in Papers : filed[p] = "verified" => (p[1] = "policy" => Index(p[2]) < Index(m))
  <2>1. ASSUME NEW p \in Papers PROVE Before(p[2], m) <=> Index(p[2]) < Index(m)
    <3>1. p[2] \in CalendarMonths
      BY ZusMonthsAssumption DEF CalendarMonths
    <3> QED  BY <1>1, <3>1, MonthsAreOrdered
  <2> QED  BY <2>1 DEF Verified
<1>5. m \in MissingZusMonths <=>
         /\ case.stage = "waiting_decision" /\ Heard /\ ~case.decided
         /\ m \in ExpectedZusMonths /\ m \notin Verified("rca")
         /\ \A until \in Verified("policy") : Before(until, m)
  BY DEF MissingZusMonths
<1>6. (/\ \A p \in Papers : filed[p] = "verified" => (p[1] = "rca" => p[2] # m)
       /\ \A p \in Papers : filed[p] = "verified" => (p[1] = "policy" => Index(p[2]) < Index(m)))
      <=> \A p \in Papers : filed[p] = "verified" =>
             /\ p[1] = "rca" => p[2] # m
             /\ p[1] = "policy" => Index(p[2]) < Index(m)
  OBVIOUS
<1> QED  BY <1>2, <1>3, <1>4, <1>5, <1>6, HeardIsCounted

(* The list of missing months, built by walking the calendar month by month, *)
(* is the set of months counted since year 0 that the case owes and nothing  *)
(* answers for: for any horizon and any papers (services/zus.py:21-97).      *)
THEOREM MissingMonthsAreExact == ZusSpec => []MissingIsExact
  BY ZusTypeHolds, ZusIsExact, PTL

-----------------------------------------------------------------------------
(* The parts together (MCCases): a behaviour of one part stutters in the     *)
(* others.                                                                   *)

LEMMA DesksFollowTheirSpecs == Spec => ArchiveSpec /\ StagesSpec /\ EmployersSpec /\ AttentionSpec
<1>1. Init => ArchiveInit /\ StagesInit /\ EmployersInit /\ AttentionInit
  BY DEF Init
<1>2. [Next]_caseVars => [ArchiveNextStep]_archiveVars
  BY DEF Next, DeskNext, caseVars, deskVars
<1>3. [Next]_caseVars => [StagesNext]_stagesVars
  BY DEF Next, DeskNext, caseVars, deskVars
<1>4. [Next]_caseVars => [EmployersNext]_employersVars
  BY SomeCompany DEF Next, DeskNext, caseVars, deskVars, EmployersNext, ProposalStep
<1>5. [Next]_caseVars => [AttentionNext]_attentionVars
  BY DEF Next, DeskNext, caseVars, deskVars, AttentionNext, NumberNext
<1> QED
  BY <1>1, <1>2, <1>3, <1>4, <1>5, PTL DEF Spec, ArchiveSpec, StagesSpec, EmployersSpec, AttentionSpec

LEMMA PapersFollowTheirSpecs == Spec => RecognitionSpec /\ ZusSpec
<1>1. Init => RecognitionInit /\ ZusInit
  BY DEF Init
<1>2. [Next]_caseVars => [RecognitionNext]_recognitionVars
  <2>1. ASSUME NEW papers, NEW offered, papers \subseteq Sheets, UploadNext(papers, offered) PROVE RecognitionNext
    <3>0. PICK s \in papers, slot \in Slots, c \in Files, month \in Months0, parse \in BOOLEAN :
             \E print \in Prints(slot) : UploadSheet(s, slot, c, month, print, parse)
      BY <2>1 DEF UploadNext
    <3>1. PICK print \in Prints(slot) : UploadSheet(s, slot, c, month, print, parse)
      BY <3>0
    <3> DEFINE all == {p \in Slots \X UNION {Prints(k) : k \in Slots} : p[2] \in Prints(p[1])}
    <3>2. <<slot, print>> \in all
      OBVIOUS
    <3> HIDE DEF all
    <3>3. UploadNext(Sheets, all)
      BY <2>1, <3>1, <3>2 DEF UploadNext
    <3> QED  BY <3>3 DEF all, RecognitionNext
  <2>2. OneSheet \subseteq Sheets
    BY SomeSheet DEF OneSheet
  <2>3. PaperNext => RecognitionNext \/ UNCHANGED recognitionVars
    BY <2>1, <2>2 DEF PaperNext, RecognitionNext
  <2> QED  BY <2>3 DEF Next, caseVars, paperVars
<1>3. [Next]_caseVars => [ZusNext]_zusVars
  BY DEF Next, PaperNext, caseVars, paperVars
<1> QED  BY <1>1, <1>2, <1>3, PTL DEF Spec, RecognitionSpec, ZusSpec

(* Every row of a case, of its papers and of its tasks, and every request on *)
(* them, has its type in every behaviour of the whole (models/case.py,       *)
(* models/task.py, models/employer.py, models/document.py).                  *)
THEOREM CasesHaveTheirTypes == Spec => []TypeOK
<1>1. ArchiveInv /\ StagesInv /\ EmployersInv /\ AttentionInv /\ RecognitionInv /\ ZusTypeOK => TypeOK
  BY DEF ArchiveInv, StagesInv, EmployersInv, AttentionInv, RecognitionInv, TypeOK
<1> QED
  BY <1>1, DesksFollowTheirSpecs, PapersFollowTheirSpecs, ArchiveInvHolds, StagesInvHolds, EmployersInvHolds,
     AttentionInvHolds, RecognitionInvHolds, ZusTypeHolds, PTL

(* What the parts promise, the whole promises, in every behaviour that a run *)
(* of it explores and for any number of cases, clerks, papers and readers.   *)
THEOREM CasesKeepTheirPromises ==
  Spec => /\ [](FlagsMatchBatches /\ FormsNeverOverwriteForms /\ OneDecisionPerEmployer)
          /\ [](ViewsAgree /\ MissingIsExact)
          /\ RestoreGivesBackTheBatch /\ ImplementsAtomicArchive /\ ForwardStepsHaveTheirDates
          /\ StaffEntriesStand /\ MonthsAreTrue
BY DesksFollowTheirSpecs, PapersFollowTheirSpecs, FlagsMatch, FormsAreNotLost, OneDecisionHolds,
   EveryViewTellsTheSame, MissingMonthsAreExact, RestoresGiveBackTheBatch, ArchivesAtOnce, StepsForwardAreEarned,
   StaffEntriesAreKept, WrittenMonthsAreTrue, PTL
=============================================================================
