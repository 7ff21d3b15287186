---------------------------- MODULE OcrLoopProofs ----------------------------
(* Theorems about OcrJobs when the automation loop is the only process that  *)
(* runs passes, which is how the deployment is meant to be configured.       *)
EXTENDS OcrJobsProofs

USE DEF Jobs, StatusAfterFailure

Alone == \A v, w \in Workers : v = w

-----------------------------------------------------------------------------
(* The invariant of a lone pass: what it listed and read is still so.  The   *)
(* rows it is about to reclaim are still processing with the attempts it     *)
(* read, and the jobs ahead in its list can still be tried.                  *)

Fresh(w) ==
  \A row \in worker[w].stale :
    /\ worker[w].pc = "reclaim"
    /\ job[row.id].status = "processing" /\ job[row.id].attempts = row.attempts

Ahead(w) ==
  \A k \in worker[w].queue :
    /\ worker[w].pc = "dispatch" => Runnable(k)
    /\ worker[w].pc \in {"parse", "followup"} => IsFirst(k, worker[w].queue) \/ Runnable(k)

Current(w) == \A j \in Jobs : Parsing(w, j) => job[j].status = "processing"

LoopInv ==
  /\ \A w \in Workers : Fresh(w) /\ Ahead(w) /\ Current(w)
  /\ TerminalAfterMaxAttempts

LEMMA LoopInit == Init => LoopInv
<1> SUFFICES ASSUME Init PROVE LoopInv
  OBVIOUS
<1>1. \A w \in Workers : worker[w].pc = "idle" /\ worker[w].stale = {} /\ worker[w].queue = {}
  BY DEF Init, Idle
<1>2. \A j \in Jobs : job[j].status = "none"
  BY DEF Init
<1>3. \A w \in Workers : Fresh(w) /\ Ahead(w)
  BY <1>1 DEF Fresh, Ahead
<1>4. \A w \in Workers : Current(w)
  BY <1>1 DEF Current, Parsing
<1>5. TerminalAfterMaxAttempts
  BY <1>2 DEF TerminalAfterMaxAttempts
<1> QED  BY <1>3, <1>4, <1>5 DEF LoopInv

(* A list has one first element. *)
LEMMA FirstIsUnique ==
  ASSUME NEW S \in SUBSET Jobs, NEW j \in Jobs, NEW k \in Jobs, IsFirst(j, S), IsFirst(k, S)
  PROVE  j = k
BY ConstantsAssumption DEF IsFirst

(* Steps of others: nobody's pass moves, and no job that was there changes   *)
(* its status or attempts, or stops being due.                               *)
LEMMA LoopElsewhere ==
  ASSUME TypeOK, LoopInv, worker' = worker,
         \A j \in Jobs : Uploaded(j) =>
            /\ job'[j].status = job[j].status /\ job'[j].attempts = job[j].attempts
            /\ job[j].due => job'[j].due,
         \A j \in Jobs : ~Uploaded(j) /\ job'[j].status = "pending"
                           => job'[j].attempts < MaxAttempts
  PROVE  LoopInv'
<1>1. TerminalAfterMaxAttempts'
  BY DEF LoopInv, TerminalAfterMaxAttempts, Uploaded
<1>2. ASSUME NEW w \in Workers
      PROVE  Fresh(w)' /\ Ahead(w)' /\ Current(w)'
  <2>1. Fresh(w) /\ Ahead(w) /\ Current(w)
    BY DEF LoopInv
  <2>2. worker[w].queue \subseteq Jobs /\ \A row \in worker[w].stale : row.id \in Jobs
    BY DEF TypeOK, Worker, StaleRow
  <2>3. \A k \in Jobs : Runnable(k) => Runnable(k)'
    BY DEF Runnable, Uploaded
  <2>4. Fresh(w)'
    BY <2>1, <2>2 DEF Fresh, Uploaded
  <2>5. Ahead(w)'
    BY <2>1, <2>2, <2>3 DEF Ahead
  <2>6. Current(w)'
    BY <2>1 DEF Current, Parsing, Uploaded
  <2> QED  BY <2>4, <2>5, <2>6
<1> QED  BY <1>1, <1>2 DEF LoopInv

(* The pass of w ends: with its list, with an exception or with its process. *)
LEMMA LoopIdle ==
  ASSUME TypeOK, LoopInv, Alone, NEW w \in Workers,
         worker' = [worker EXCEPT ![w] = Idle], job' = job
  PROVE  LoopInv'
<1>1. \A v \in Workers : worker'[v] = Idle
  BY DEF Alone, TypeOK
<1>2. \A v \in Workers : Fresh(v)' /\ Ahead(v)'
  BY <1>1 DEF Fresh, Ahead, Idle
<1>3. \A v \in Workers : Current(v)'
  BY <1>1 DEF Current, Parsing, Idle
<1> QED  BY <1>2, <1>3 DEF LoopInv, TerminalAfterMaxAttempts

(* The pass leaves job k behind: the jobs after it in the list are untouched. *)
LEMMA LoopLeave ==
  ASSUME TypeOK, LoopInv, Alone, NEW w \in Workers, NEW k \in Jobs,
         worker[w].pc \in {"dispatch", "parse", "followup"}, IsFirst(k, worker[w].queue),
         Advance(w, k), \A j \in Jobs : j # k => job'[j] = job[j],
         job'[k].status = "pending" => job'[k].attempts < MaxAttempts
  PROVE  LoopInv'
<1>1. /\ worker'[w].pc = "dispatch" /\ worker'[w].queue = worker[w].queue \ {k}
      /\ worker'[w].stale = worker[w].stale
  BY DEF Advance, TypeOK, Worker
<1>2. Fresh(w) /\ Ahead(w) /\ TerminalAfterMaxAttempts
  BY DEF LoopInv
<1>3. worker[w].queue \in SUBSET Jobs
  BY DEF TypeOK, Worker
<1>4. Fresh(w)'
  BY <1>1, <1>2 DEF Fresh
<1>5. Ahead(w)'
  <2> SUFFICES ASSUME NEW i \in worker[w].queue, i # k PROVE Runnable(i)'
    BY <1>1 DEF Ahead
  <2>1. ~IsFirst(i, worker[w].queue)
    BY <1>3, FirstIsUnique
  <2>2. Runnable(i)
    BY <1>2, <2>1 DEF Ahead
  <2> QED  BY <1>3, <2>2 DEF Runnable
<1>6. Current(w)'
  BY <1>1 DEF Current, Parsing
<1>7. TerminalAfterMaxAttempts'
  BY <1>2 DEF TerminalAfterMaxAttempts
<1> QED  BY <1>4, <1>5, <1>6, <1>7 DEF LoopInv, Alone

LEMMA LoopReclaim ==
  ASSUME TypeOK, LoopInv, Alone, NEW w \in Workers, Reclaim(w)
  PROVE  LoopInv'
<1>1. Fresh(w) /\ Current(w) /\ TerminalAfterMaxAttempts
  BY DEF LoopInv
<1>2. CASE ReclaimRead(w)
  <2>1. job' = job /\ worker'[w].pc = "reclaim"
    BY <1>2 DEF ReclaimRead, queueVars, TypeOK, Worker
  <2>2. worker'[w].stale = {[id |-> j, attempts |-> job[j].attempts] :
                              j \in {k \in Jobs : /\ job[k].status = "processing"
                                                  /\ job[k].lease = "expired"}}
    BY <1>2 DEF ReclaimRead, TypeOK, Worker
  <2>3. Fresh(w)'
    BY <2>1, <2>2 DEF Fresh
  <2>4. Ahead(w)' /\ Current(w)'
    BY <2>1 DEF Ahead, Current, Parsing
  <2> QED  BY <1>1, <2>1, <2>3, <2>4 DEF LoopInv, Alone, TerminalAfterMaxAttempts
<1>3. ASSUME NEW row \in worker[w].stale, ReclaimSave(w, row)
      PROVE  LoopInv'
  <2>1. worker[w].stale \in SUBSET StaleRow
    BY DEF TypeOK, Worker
  <2>2. /\ worker'[w].pc = "reclaim" /\ worker'[w].stale = worker[w].stale \ {row}
    BY <1>3 DEF ReclaimSave, TypeOK, Worker
  <2>3. \A j \in Jobs : j # row.id => job'[j] = job[j]
    BY <1>3 DEF ReclaimSave, TypeOK
  <2>4. /\ job'[row.id].attempts = job[row.id].attempts
        /\ job'[row.id].status = "pending" => row.attempts < MaxAttempts
    <3>1. row.id \in Jobs /\ job[row.id] \in Job
      BY <2>1 DEF StaleRow, TypeOK
    <3> DEFINE st == IF row.attempts < MaxAttempts THEN "pending" ELSE "failed"
    <3>2. job'[row.id] = [job[row.id] EXCEPT !.status = st, !.due = TRUE, !.lease = "none"]
      BY <1>3, <3>1 DEF ReclaimSave, TypeOK, Job
    <3>3. st = "pending" => row.attempts < MaxAttempts
      OBVIOUS
    <3> HIDE DEF st
    <3> QED  BY <3>1, <3>2, <3>3 DEF Job
  <2>5. Fresh(w)'
    <3> SUFFICES ASSUME NEW r \in worker[w].stale, r # row
                 PROVE  job'[r.id] = job[r.id]
      BY <1>1, <2>2 DEF Fresh
    <3>1. r.id \in Jobs /\ (r.id = row.id => r.attempts = row.attempts)
      BY <1>1, <2>1 DEF Fresh, StaleRow
    <3>2. r.id # row.id
      BY <2>1, <3>1 DEF StaleRow
    <3> QED  BY <2>3, <3>1, <3>2
  <2>6. Ahead(w)' /\ Current(w)'
    BY <2>2 DEF Ahead, Current, Parsing
  <2>7. TerminalAfterMaxAttempts'
    BY <1>1, <2>3, <2>4 DEF TerminalAfterMaxAttempts, Fresh
  <2> QED  BY <2>5, <2>6, <2>7 DEF LoopInv, Alone
<1>4. CASE ReclaimEnd(w)
  <2>1. /\ job' = job /\ worker'[w].pc = "list" /\ worker'[w].stale = {}
    BY <1>4 DEF ReclaimEnd, queueVars, TypeOK, Worker
  <2>2. Fresh(w)' /\ Ahead(w)' /\ Current(w)'
    BY <2>1 DEF Fresh, Ahead, Current, Parsing
  <2> QED  BY <1>1, <2>1, <2>2 DEF LoopInv, Alone, TerminalAfterMaxAttempts
<1> QED  BY <1>2, <1>3, <1>4 DEF Reclaim

LEMMA LoopList ==
  ASSUME TypeOK, LoopInv, Alone, NEW w \in Workers, ListPending(w)
  PROVE  LoopInv'
<1>1. Fresh(w) /\ TerminalAfterMaxAttempts
  BY DEF LoopInv
<1>2. /\ job' = job /\ worker[w].pc = "list" /\ worker'[w].pc = "dispatch"
      /\ worker'[w].stale = worker[w].stale
      /\ worker'[w].queue = FirstRows({j \in Jobs : Runnable(j)})
  BY DEF ListPending, queueVars, TypeOK, Worker
<1>3. Fresh(w)' /\ Current(w)'
  BY <1>1, <1>2 DEF Fresh, Current, Parsing
<1>4. \A k \in worker'[w].queue : k \in Jobs /\ Runnable(k)
  BY <1>2 DEF FirstRows
<1>5. Ahead(w)'
  BY <1>2, <1>4 DEF Ahead, Runnable
<1> QED  BY <1>1, <1>2, <1>3, <1>5 DEF LoopInv, Alone, TerminalAfterMaxAttempts

LEMMA LoopClaim ==
  ASSUME TypeOK, LoopInv, Alone, NEW w \in Workers, NEW k \in Jobs, Claim(w, k)
  PROVE  LoopInv'
<1>1. Fresh(w) /\ Ahead(w) /\ TerminalAfterMaxAttempts
  BY DEF LoopInv
<1>2. /\ worker[w].pc = "dispatch" /\ worker'[w].pc = "parse"
      /\ worker'[w].stale = worker[w].stale /\ worker'[w].queue = worker[w].queue
      /\ IsFirst(k, worker[w].queue) /\ worker[w].queue \in SUBSET Jobs
  BY DEF Claim, TypeOK, Worker
<1>3. /\ \A j \in Jobs : j # k => job'[j] = job[j]
      /\ job'[k].status = "processing"
  BY DEF Claim, TypeOK, Job
<1>4. Fresh(w)'
  BY <1>1, <1>2 DEF Fresh
<1>5. Ahead(w)'
  BY <1>1, <1>2, <1>3 DEF Ahead, Runnable
<1>6. Current(w)'
  BY <1>2, <1>3, FirstIsUnique DEF Current, Parsing
<1>7. TerminalAfterMaxAttempts'
  BY <1>1, <1>3 DEF TerminalAfterMaxAttempts
<1> QED  BY <1>4, <1>5, <1>6, <1>7 DEF LoopInv, Alone

(* What a finaliser does to the row of its own job. *)
LEMMA FinalizedRow ==
  ASSUME TypeOK, NEW w \in Workers, NEW k \in Jobs, Finalize(w, k)
  PROVE  /\ \A j \in Jobs : j # k => job'[j] = job[j]
         /\ job'[k].attempts = job[k].attempts
         /\ \/ job'[k] = job[k]
            \/ job'[k].status = "pending" /\ job[k].attempts < MaxAttempts
            \/ job'[k].status \in Terminal
<1>1. \A j \in Jobs : j # k => job'[j] = job[j]
  BY DEF Finalize, FinalizeSkipped, FinalizeRaises, FinalizeFailedDocument,
         FinalizeSuccessfulDocument, FinalizeFailedAuto, FinalizeSuccessfulAuto,
         queueVars, TypeOK
<1>2. job[k] \in Job
  BY DEF TypeOK
<1>3. CASE FinalizeSkipped(w, k) \/ FinalizeRaises(w, k)
  BY <1>1, <1>3 DEF FinalizeSkipped, FinalizeRaises, queueVars
<1>4. CASE FinalizeFailedDocument(w, k)
  <2> DEFINE retry == job[k].attempts < MaxAttempts
             st == IF retry THEN "pending" ELSE "failed"
  <2>1. job'[k] = [job[k] EXCEPT !.status = st, !.due = job[k].attempts >= MaxAttempts, !.lease = "none"]
    BY <1>4 DEF FinalizeFailedDocument, TypeOK, Job
  <2>2. (st = "pending" /\ retry) \/ st = "failed"
    OBVIOUS
  <2> HIDE DEF st
  <2>3. job'[k].status = st /\ job'[k].attempts = job[k].attempts
    BY <1>2, <2>1 DEF Job
  <2> QED  BY <1>1, <2>2, <2>3 DEF Terminal
<1>5. CASE FinalizeSuccessfulDocument(w, k)
  <2>1. job'[k] = [job[k] EXCEPT !.status = "completed", !.due = TRUE, !.lease = "none"]
    BY <1>5 DEF FinalizeSuccessfulDocument, TypeOK, Job
  <2> QED  BY <1>1, <1>2, <2>1 DEF Job, Terminal
<1>6. CASE FinalizeFailedAuto(w, k)
  <2>1. job'[k] = [job[k] EXCEPT !.status = "failed", !.source = worker[w].source]
    BY <1>6 DEF FinalizeFailedAuto, TypeOK, Job
  <2> QED  BY <1>1, <1>2, <2>1 DEF Job, Terminal
<1>7. CASE FinalizeSuccessfulAuto(w, k)
  <2>1. job'[k] = [job[k] EXCEPT !.status = "completed", !.source = worker[w].source]
    BY <1>7 DEF FinalizeSuccessfulAuto, TypeOK, Job
  <2> QED  BY <1>1, <1>2, <2>1 DEF Job, Terminal
<1> QED  BY <1>3, <1>4, <1>5, <1>6, <1>7 DEF Finalize

LEMMA LoopJobStep ==
  ASSUME TypeOK, LoopInv, Alone, NEW w \in Workers, NEW k \in Jobs,
         SkipClaim(w, k) \/ Finalize(w, k) \/ FollowUp(w, k)
  PROVE  LoopInv'
<1>1. TerminalAfterMaxAttempts /\ (Parsing(w, k) => job[k].status = "processing")
  BY DEF LoopInv, Current
<1>2. CASE SkipClaim(w, k)
  <2>1. job' = job /\ Advance(w, k) /\ worker[w].pc = "dispatch" /\ IsFirst(k, worker[w].queue)
    BY <1>2 DEF SkipClaim, queueVars
  <2> QED  BY <1>1, <2>1, LoopLeave DEF TerminalAfterMaxAttempts
<1>3. CASE FollowUp(w, k)
  <2>1. job' = job /\ Advance(w, k) /\ worker[w].pc = "followup" /\ IsFirst(k, worker[w].queue)
    BY <1>3 DEF FollowUp
  <2> QED  BY <1>1, <2>1, LoopLeave DEF TerminalAfterMaxAttempts
<1>4. CASE FinalizeRaises(w, k)
  BY <1>4, LoopIdle DEF FinalizeRaises, queueVars
<1>5. CASE Finalize(w, k) /\ Advance(w, k)
  <2>1. worker[w].pc = "parse" /\ IsFirst(k, worker[w].queue)
    BY <1>5 DEF Finalize, FinalizeSkipped, FinalizeRaises, FinalizeFailedDocument,
                FinalizeSuccessfulDocument, FinalizeFailedAuto, FinalizeSuccessfulAuto, Parsing
  <2>2. job'[k].status = "pending" => job'[k].attempts < MaxAttempts
    BY <1>1, <1>5, FinalizedRow DEF TerminalAfterMaxAttempts, Terminal
  <2>3. \A j \in Jobs : j # k => job'[j] = job[j]
    BY <1>5, FinalizedRow
  <2> QED  BY <1>5, <2>1, <2>2, <2>3, LoopLeave
<1>6. CASE FinalizeSuccessfulAuto(w, k)
  <2>1. /\ worker[w].pc = "parse" /\ IsFirst(k, worker[w].queue)
        /\ worker'[w].pc = "followup" /\ worker'[w].queue = worker[w].queue
        /\ worker'[w].stale = worker[w].stale /\ worker[w].queue \in SUBSET Jobs
    BY <1>6 DEF FinalizeSuccessfulAuto, Parsing, TypeOK, Worker
  <2>2. /\ \A j \in Jobs : j # k => job'[j] = job[j]
        /\ job'[k].status = "pending" => job'[k].attempts < MaxAttempts
    BY <1>1, <1>6, FinalizedRow DEF Finalize, TerminalAfterMaxAttempts, Terminal
  <2>3. Fresh(w)' /\ Current(w)'
    BY <2>1 DEF LoopInv, Fresh, Current, Parsing
  <2>4. Ahead(w)'
    <3> SUFFICES ASSUME NEW i \in worker[w].queue, ~IsFirst(i, worker[w].queue)
                 PROVE  Runnable(i)'
      BY <2>1 DEF Ahead
    <3>1. Runnable(i) /\ i # k
      BY <2>1 DEF LoopInv, Ahead
    <3> QED  BY <2>1, <2>2, <3>1 DEF Runnable
  <2>5. TerminalAfterMaxAttempts'
    BY <1>1, <2>2 DEF TerminalAfterMaxAttempts
  <2> QED  BY <2>3, <2>4, <2>5 DEF LoopInv, Alone
<1> QED  BY <1>2, <1>3, <1>4, <1>5, <1>6
         DEF Finalize, FinalizeSkipped, FinalizeFailedDocument, FinalizeSuccessfulDocument,
             FinalizeFailedAuto

LEMMA LoopOthers ==
  ASSUME TypeOK, LoopInv, Upload \/ Time \/ Staff \/ UNCHANGED vars
  PROVE  LoopInv'
<1>1. ASSUME NEW k \in Jobs,
             UploadQueued(k) \/ UploadInlineRead(k) \/ UploadInlineUnread(k)
      PROVE  LoopInv'
  <2>1. ~Uploaded(k) /\ worker' = worker /\ \A j \in Jobs : j # k => job'[j] = job[j]
    BY <1>1 DEF UploadQueued, UploadInlineRead, UploadInlineUnread, NextUpload, TypeOK
  <2>2. job'[k].status = "pending" => job'[k].attempts < MaxAttempts
    <3>1. CASE UploadQueued(k)
      BY <3>1, ConstantsAssumption DEF UploadQueued, TypeOK
    <3>2. CASE UploadInlineRead(k)
      BY <3>2 DEF UploadInlineRead, TypeOK
    <3>3. CASE UploadInlineUnread(k)
      BY <3>3 DEF UploadInlineUnread, TypeOK
    <3> QED  BY <1>1, <3>1, <3>2, <3>3
  <2>3. \A j \in Jobs : ~Uploaded(j) /\ job'[j].status = "pending"
                           => job'[j].attempts < MaxAttempts
    BY <2>1, <2>2 DEF Uploaded
  <2> QED  BY <2>1, <2>3, LoopElsewhere
<1>2. ASSUME NEW k \in Jobs, BackoffElapses(k) \/ LeaseExpires(k)
      PROVE  LoopInv'
  <2>1. worker' = worker
    BY <1>2 DEF BackoffElapses, LeaseExpires
  <2>2. \A j \in Jobs : job'[j].status = job[j].status /\ job'[j].attempts = job[j].attempts
    <3>1. CASE BackoffElapses(k)
      BY <3>1 DEF BackoffElapses, TypeOK, Job
    <3>2. CASE LeaseExpires(k)
      BY <3>2 DEF LeaseExpires, TypeOK, Job
    <3> QED  BY <1>2, <3>1, <3>2
  <2>3. \A j \in Jobs : job[j].due => job'[j].due
    <3>1. CASE BackoffElapses(k)
      BY <3>1 DEF BackoffElapses, TypeOK, Job
    <3>2. CASE LeaseExpires(k)
      BY <3>2 DEF LeaseExpires, TypeOK, Job
    <3> QED  BY <1>2, <3>1, <3>2
  <2>4. \A j \in Jobs : ~Uploaded(j) => job'[j].status # "pending"
    BY <2>2 DEF Uploaded
  <2> QED  BY <2>1, <2>2, <2>3, <2>4, LoopElsewhere
<1>3. CASE UNCHANGED <<job, worker>>
  <2>1. \A j \in Jobs : ~Uploaded(j) => job'[j].status # "pending"
    BY <1>3 DEF Uploaded
  <2> QED  BY <1>3, <2>1, LoopElsewhere
<1>4. Staff \/ UNCHANGED vars => UNCHANGED <<job, worker>>
  BY DEF Staff, ConfirmWezwanie, ToggleOn, ToggleOff, RejectDocument, DeleteDocument,
         RestoreRead, VerifyAll, RestoreSave, ScrubRead, ScrubSave, queueVars, vars
<1> QED  BY <1>1, <1>2, <1>3, <1>4 DEF Upload, Time

LEMMA LoopStep == TypeOK /\ Alone /\ LoopInv /\ [Next]_vars => LoopInv'
<1> SUFFICES ASSUME TypeOK, Alone, LoopInv, [Next]_vars PROVE LoopInv'
  OBVIOUS
<1>1. ASSUME NEW w \in Workers, EndPass(w) \/ Crash(w)
      PROVE  LoopInv'
  BY <1>1, LoopIdle DEF EndPass, Crash, queueVars
<1> QED  BY <1>1, LoopOthers, LoopReclaim, LoopList, LoopClaim, LoopJobStep DEF Next, PassStep

LEMMA LoopInvariant == Alone => (Spec => [](TypeOK /\ LoopInv))
<1> SUFFICES ASSUME Alone PROVE Spec => [](TypeOK /\ LoopInv)
  OBVIOUS
<1>1. TypeOK /\ LoopInv /\ [Next]_vars => (TypeOK /\ LoopInv)'
  BY TypeStep, LoopStep
<1> QED  BY TypeInit, LoopInit, <1>1, PTL DEF Spec

(* With one process running passes, no job is ever left pending with its     *)
(* attempts used up: every job the queue gives up on is marked failed.       *)
THEOREM LoneLoopParksNoJob == Alone => (Spec => []TerminalAfterMaxAttempts)
<1> SUFFICES ASSUME Alone PROVE Spec => []TerminalAfterMaxAttempts
  OBVIOUS
<1>1. LoopInv => TerminalAfterMaxAttempts
  BY DEF LoopInv
<1> QED  BY <1>1, LoopInvariant, PTL

(* With one process running passes, a claim comes only after the backoff and *)
(* within max_attempts, although the claim itself looks at neither.          *)
THEOREM LoneLoopBacksOff == Alone => (Spec => RetriesWithBackoff)
<1> SUFFICES ASSUME Alone PROVE Spec => RetriesWithBackoff
  OBVIOUS
<1> DEFINE Backed(j) == job[j].status = "pending" /\ job'[j].status = "processing"
                          => job[j].due /\ job[j].attempts < MaxAttempts
<1>1. ASSUME TypeOK, LoopInv, Next, NEW j \in Jobs,
             job[j].status = "pending", job'[j].status = "processing"
      PROVE  Runnable(j)
  <2>1. ASSUME NEW w \in Workers, NEW k \in Jobs, Claim(w, k)
        PROVE  Runnable(j)
    <3>1. k = j
      BY <1>1, <2>1 DEF Claim, TypeOK
    <3> QED  BY <1>1, <2>1, <3>1 DEF Claim, IsFirst, LoopInv, Ahead
  <2>2. ASSUME NEW w \in Workers, NEW k \in Jobs,
               SkipClaim(w, k) \/ Finalize(w, k) \/ FollowUp(w, k)
        PROVE  job'[j] = job[j]
    BY <1>1, <2>2, OwnRowOnly DEF LoopInv, Current
  <2>3. ASSUME NEW w \in Workers, NEW row \in worker[w].stale, ReclaimSave(w, row)
        PROVE  job'[j] = job[j]
    BY <1>1, <2>3 DEF ReclaimSave, TypeOK, LoopInv, Fresh
  <2>4. ASSUME NEW w \in Workers,
               ReclaimRead(w) \/ ReclaimEnd(w) \/ ListPending(w) \/ EndPass(w) \/ Crash(w)
        PROVE  job' = job
    BY <2>4 DEF ReclaimRead, ReclaimEnd, ListPending, EndPass, Crash, queueVars
  <2>5. Upload => job'[j] = job[j]
    BY <1>1 DEF Upload, UploadQueued, UploadInlineRead, UploadInlineUnread, NextUpload,
                Uploaded, TypeOK
  <2>6. Time => job'[j].status = job[j].status
    <3>1. ASSUME NEW k \in Jobs, BackoffElapses(k)
          PROVE  job'[j].status = job[j].status
      BY <3>1 DEF BackoffElapses, TypeOK, Job
    <3>2. ASSUME NEW k \in Jobs, LeaseExpires(k)
          PROVE  job'[j].status = job[j].status
      BY <3>2 DEF LeaseExpires, TypeOK, Job
    <3> QED  BY <3>1, <3>2 DEF Time
  <2>7. Staff => job' = job
    BY DEF Staff, ConfirmWezwanie, ToggleOn, ToggleOff, RejectDocument, DeleteDocument,
           RestoreRead, VerifyAll, RestoreSave, ScrubRead, ScrubSave, queueVars
  <2> QED  BY <1>1, <2>1, <2>2, <2>3, <2>4, <2>5, <2>6, <2>7 DEF Next, PassStep, Reclaim
<1>2. TypeOK /\ LoopInv /\ [Next]_vars => [\A j \in Jobs : Backed(j)]_vars
  BY <1>1 DEF Runnable
<1>3. RetriesWithBackoff <=> [][\A j \in Jobs : Backed(j)]_vars
  BY DEF RetriesWithBackoff
<1> HIDE DEF Backed
<1> QED  BY <1>2, <1>3, LoopInvariant, PTL DEF Spec

-----------------------------------------------------------------------------
(* Refinement.  A step of the queue changes the status and the attempts of   *)
(* one row at most, along one of the arrows of JobLifecycle.                 *)

Arrow(j) ==
  \/ job'[j].status = job[j].status /\ job'[j].attempts = job[j].attempts
  \/ /\ job[j].status = "none" /\ job'[j].status = "pending"
     /\ job'[j].attempts \in {0, 1} /\ job'[j].attempts < MaxAttempts
  \/ job[j].status = "none" /\ job'[j].status \in Terminal /\ job'[j].attempts = 1
  \/ /\ job[j].status = "pending" /\ job[j].attempts < MaxAttempts
     /\ job'[j].status = "processing" /\ job'[j].attempts = job[j].attempts + 1
  \/ /\ job[j].status = "processing" /\ job[j].attempts < MaxAttempts
     /\ job'[j].status = "pending" /\ job'[j].attempts = job[j].attempts
  \/ /\ job[j].status = "processing" /\ job'[j].status \in Terminal
     /\ job'[j].attempts = job[j].attempts

LEMMA ArrowIsAStep ==
  ASSUME NEW k \in Jobs, Arrow(k),
         \A j \in Jobs : j # k => /\ job'[j].status = job[j].status
                                  /\ job'[j].attempts = job[j].attempts
  PROVE  [Lifecycle!Next]_(Lifecycle!vars)
<1> DEFINE phase == [j \in Jobs |-> Phase(job[j].status)]
           tries == [j \in Jobs |-> job[j].attempts]
<1>1. /\ phase' = [phase EXCEPT ![k] = Phase(job'[k].status)]
      /\ tries' = [tries EXCEPT ![k] = job'[k].attempts]
  OBVIOUS
<1>2. phase[k] = Phase(job[k].status) /\ tries[k] = job[k].attempts
  OBVIOUS
<1>3. CASE job'[k].status = job[k].status /\ job'[k].attempts = job[k].attempts
  <2>1. phase' = phase /\ tries' = tries
    BY <1>3
  <2> QED  BY <2>1 DEF Lifecycle!vars
<1>4. CASE /\ job[k].status = "none" /\ job'[k].status = "pending"
           /\ job'[k].attempts \in {0, 1} /\ job'[k].attempts < MaxAttempts
  <2>1. phase[k] = "absent" /\ phase' = [phase EXCEPT ![k] = "waiting"]
    BY <1>1, <1>2, <1>4 DEF Phase
  <2>2. Lifecycle!Submit(k)
    BY <1>1, <1>4, <2>1 DEF Lifecycle!Submit
  <2> QED  BY <2>2 DEF Lifecycle!Next
<1>5. CASE job[k].status = "none" /\ job'[k].status \in Terminal /\ job'[k].attempts = 1
  <2>1. phase[k] = "absent" /\ phase' = [phase EXCEPT ![k] = "over"]
    BY <1>1, <1>2, <1>5 DEF Phase, Terminal
  <2>2. Lifecycle!Answer(k)
    BY <1>1, <1>5, <2>1 DEF Lifecycle!Answer
  <2> QED  BY <2>2 DEF Lifecycle!Next
<1>6. CASE /\ job[k].status = "pending" /\ job[k].attempts < MaxAttempts
           /\ job'[k].status = "processing" /\ job'[k].attempts = job[k].attempts + 1
  <2>1. phase[k] = "waiting" /\ phase' = [phase EXCEPT ![k] = "running"]
    BY <1>1, <1>2, <1>6 DEF Phase
  <2>2. Lifecycle!Try(k)
    BY <1>1, <1>2, <1>6, <2>1 DEF Lifecycle!Try
  <2> QED  BY <2>2 DEF Lifecycle!Next, Lifecycle!Proceed
<1>7. CASE /\ job[k].status = "processing" /\ job[k].attempts < MaxAttempts
           /\ job'[k].status = "pending" /\ job'[k].attempts = job[k].attempts
  <2>1. phase[k] = "running" /\ phase' = [phase EXCEPT ![k] = "waiting"]
    BY <1>1, <1>2, <1>7 DEF Phase
  <2>2. tries' = tries
    BY <1>1, <1>7
  <2>3. Lifecycle!GoBack(k)
    BY <1>2, <1>7, <2>1, <2>2 DEF Lifecycle!GoBack
  <2> QED  BY <2>3 DEF Lifecycle!Next, Lifecycle!Proceed
<1>8. CASE /\ job[k].status = "processing" /\ job'[k].status \in Terminal
           /\ job'[k].attempts = job[k].attempts
  <2>1. phase[k] = "running" /\ phase' = [phase EXCEPT ![k] = "over"]
    BY <1>1, <1>2, <1>8 DEF Phase, Terminal
  <2>2. tries' = tries
    BY <1>1, <1>8
  <2>3. Lifecycle!End(k)
    BY <2>1, <2>2 DEF Lifecycle!End
  <2> QED  BY <2>3 DEF Lifecycle!Next, Lifecycle!Proceed
<1> QED  BY <1>3, <1>4, <1>5, <1>6, <1>7, <1>8 DEF Arrow

LEMMA StepIsAnArrow ==
  ASSUME TypeOK, LoopInv, [Next]_vars
  PROVE  [Lifecycle!Next]_(Lifecycle!vars)
<1>1. ASSUME NEW k \in Jobs,
             UploadQueued(k) \/ UploadInlineRead(k) \/ UploadInlineUnread(k)
      PROVE  [Lifecycle!Next]_(Lifecycle!vars)
  <2>1. job[k].status = "none" /\ \A j \in Jobs : j # k => job'[j] = job[j]
    BY <1>1 DEF UploadQueued, UploadInlineRead, UploadInlineUnread, NextUpload, Uploaded, TypeOK
  <2>2. Arrow(k)
    <3>1. CASE UploadQueued(k)
      <4>1. job'[k].status = "pending" /\ job'[k].attempts = 0
        BY <3>1 DEF UploadQueued, TypeOK
      <4> QED  BY <2>1, <4>1, ConstantsAssumption DEF Arrow
    <3>2. CASE UploadInlineRead(k)
      BY <2>1, <3>2 DEF UploadInlineRead, TypeOK, Arrow, Terminal
    <3>3. CASE UploadInlineUnread(k)
      <4>1. /\ job'[k].attempts = 1
            /\ \/ job'[k].status = "pending" /\ 1 < MaxAttempts
               \/ job'[k].status = "failed"
        BY <3>3 DEF UploadInlineUnread, TypeOK
      <4> QED  BY <2>1, <4>1 DEF Arrow, Terminal
    <3> QED  BY <1>1, <3>1, <3>2, <3>3
  <2> QED  BY <2>1, <2>2, ArrowIsAStep
<1>2. ASSUME NEW k \in Jobs, BackoffElapses(k) \/ LeaseExpires(k)
      PROVE  [Lifecycle!Next]_(Lifecycle!vars)
  <2>1. \A j \in Jobs : job'[j].status = job[j].status /\ job'[j].attempts = job[j].attempts
    <3>1. CASE BackoffElapses(k)
      BY <3>1 DEF BackoffElapses, TypeOK, Job
    <3>2. CASE LeaseExpires(k)
      BY <3>2 DEF LeaseExpires, TypeOK, Job
    <3> QED  BY <1>2, <3>1, <3>2
  <2> QED  BY <2>1, ArrowIsAStep DEF Arrow
<1>3. ASSUME NEW w \in Workers, NEW row \in worker[w].stale, ReclaimSave(w, row)
      PROVE  [Lifecycle!Next]_(Lifecycle!vars)
  <2> DEFINE k == row.id
             st == IF row.attempts < MaxAttempts THEN "pending" ELSE "failed"
  <2>1. k \in Jobs /\ job[k] \in Job
    BY DEF TypeOK, Worker, StaleRow
  <2>2. job[k].status = "processing" /\ job[k].attempts = row.attempts
    BY DEF LoopInv, Fresh
  <2>3. \A j \in Jobs : j # k => job'[j] = job[j]
    BY <1>3 DEF ReclaimSave, TypeOK
  <2>4. job'[k] = [job[k] EXCEPT !.status = st, !.due = TRUE, !.lease = "none"]
    BY <1>3, <2>1 DEF ReclaimSave, TypeOK, Job
  <2>5. (st = "pending" /\ row.attempts < MaxAttempts) \/ st = "failed"
    OBVIOUS
  <2> HIDE DEF st, k
  <2>6. job'[k].status = st /\ job'[k].attempts = job[k].attempts
    BY <2>1, <2>4 DEF Job
  <2>7. Arrow(k)
    BY <2>2, <2>5, <2>6 DEF Arrow, Terminal
  <2> QED  BY <2>1, <2>3, <2>7, ArrowIsAStep
<1>4. ASSUME NEW w \in Workers, NEW k \in Jobs, Claim(w, k)
      PROVE  [Lifecycle!Next]_(Lifecycle!vars)
  <2>1. /\ job[k].status = "pending" /\ job[k].attempts < MaxAttempts
    BY <1>4 DEF Claim, LoopInv, Ahead, Runnable, IsFirst
  <2>2. /\ job'[k].status = "processing" /\ job'[k].attempts = job[k].attempts + 1
        /\ \A j \in Jobs : j # k => job'[j] = job[j]
    BY <1>4 DEF Claim, TypeOK, Job
  <2>3. Arrow(k)
    BY <2>1, <2>2 DEF Arrow
  <2> QED  BY <2>2, <2>3, ArrowIsAStep
<1>5. ASSUME NEW w \in Workers, NEW k \in Jobs, Finalize(w, k)
      PROVE  [Lifecycle!Next]_(Lifecycle!vars)
  <2>1. job[k].status = "processing" \/ job'[k] = job[k]
    BY <1>5, OwnRowOnly DEF LoopInv, Current
  <2>2. Arrow(k)
    BY <1>5, <2>1, FinalizedRow DEF Arrow
  <2>3. \A j \in Jobs : j # k => job'[j] = job[j]
    BY <1>5, FinalizedRow
  <2> QED  BY <2>2, <2>3, ArrowIsAStep
<1>6. CASE UNCHANGED job
  BY <1>6 DEF Lifecycle!vars
<1>7. ASSUME NEW w \in Workers, NEW k \in Jobs, SkipClaim(w, k) \/ FollowUp(w, k)
      PROVE  UNCHANGED job
  BY <1>7 DEF SkipClaim, FollowUp, queueVars
<1>8. ASSUME NEW w \in Workers,
             ReclaimRead(w) \/ ReclaimEnd(w) \/ ListPending(w) \/ EndPass(w) \/ Crash(w)
      PROVE  UNCHANGED job
  BY <1>8 DEF ReclaimRead, ReclaimEnd, ListPending, EndPass, Crash, queueVars
<1>9. Staff \/ UNCHANGED vars => UNCHANGED job
  BY DEF Staff, ConfirmWezwanie, ToggleOn, ToggleOff, RejectDocument, DeleteDocument,
         RestoreRead, VerifyAll, RestoreSave, ScrubRead, ScrubSave, queueVars, vars
<1> QED  BY <1>1, <1>2, <1>3, <1>4, <1>5, <1>6, <1>7, <1>8, <1>9
         DEF Next, Upload, Time, PassStep, Reclaim

(* With one process running passes, the queue implements JobLifecycle, but   *)
(* for its fairness: a document is tried at most max_attempts times, and     *)
(* what has ended never starts again.                                        *)
THEOREM LoneLoopImplementsLifecycle == Alone => (Spec => Lifecycle!SafeSpec)
<1> SUFFICES ASSUME Alone PROVE Spec => Lifecycle!SafeSpec
  OBVIOUS
<1>1. Init => Lifecycle!Init
  BY DEF Init, Lifecycle!Init, Phase
<1>2. TypeOK /\ LoopInv /\ [Next]_vars => [Lifecycle!Next]_(Lifecycle!vars)
  BY StepIsAnArrow
<1> QED  BY <1>1, <1>2, LoopInvariant, PTL DEF Spec, Lifecycle!SafeSpec
=============================================================================
