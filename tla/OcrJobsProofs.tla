--------------------------- MODULE OcrJobsProofs ----------------------------
(* Theorems about OcrJobs, for any number of documents, processes, attempts, *)
(* restores and crashes.                                                     *)
EXTENDS OcrJobs, TLAPS

USE DEF Jobs, StatusAfterFailure

-----------------------------------------------------------------------------
(* Type correctness: one lemma per group of actions, one step per variable  *)
(* an action changes.                                                       *)

LEMMA TypeInit == Init => TypeOK
<1> SUFFICES ASSUME Init PROVE TypeOK
  OBVIOUS
<1>1. job \in [Jobs -> Job]
  BY DEF Init, Job, Status, Lease, File
<1>2. doc \in [Jobs -> Doc]
  BY DEF Init, Doc, OcrStatus, File, Parsed, NoParsed
<1>3. worker \in [Workers -> Worker]
  BY DEF Init, Worker, Idle, File
<1>4. restoring \in Copy \cup {NoCopy} /\ scrubbing \in SUBSET [id : Jobs, of : File]
  BY DEF Init
<1>5. crashes \in 0..MaxCrashes
  BY ConstantsAssumption DEF Init
<1> QED  BY <1>1, <1>2, <1>3, <1>4, <1>5 DEF TypeOK, Init

LEMMA TypeUpload ==
  ASSUME TypeOK, NEW j \in Jobs,
         UploadQueued(j) \/ UploadInlineRead(j) \/ UploadInlineUnread(j)
  PROVE  TypeOK'
<1>1. CASE UploadQueued(j)
  <2>1. job' \in [Jobs -> Job]
    BY <1>1 DEF UploadQueued, TypeOK, Job, Status, Lease, File
  <2>2. doc' \in [Jobs -> Doc]
    BY <1>1 DEF UploadQueued, TypeOK, Doc, OcrStatus, File, Parsed, NewDoc, NoParsed
  <2> QED  BY <1>1, <2>1, <2>2 DEF TypeOK, UploadQueued
<1>2. CASE UploadInlineRead(j)
  <2>1. job' \in [Jobs -> Job]
    BY <1>2 DEF UploadInlineRead, TypeOK, Job, Status, Lease, File
  <2>2. doc' \in [Jobs -> Doc]
    BY <1>2 DEF UploadInlineRead, TypeOK, Doc, OcrStatus, File, Parsed, NewDoc
  <2> QED  BY <1>2, <2>1, <2>2 DEF TypeOK, UploadInlineRead
<1>3. CASE UploadInlineUnread(j)
  <2>1. job' \in [Jobs -> Job]
    BY <1>3 DEF UploadInlineUnread, TypeOK, Job, Status, Lease, File
  <2>2. doc' \in [Jobs -> Doc]
    BY <1>3 DEF UploadInlineUnread, TypeOK, Doc, OcrStatus, File, Parsed, NewDoc, NoParsed
  <2> QED  BY <1>3, <2>1, <2>2 DEF TypeOK, UploadInlineUnread
<1> QED  BY <1>1, <1>2, <1>3

LEMMA TypeTime ==
  ASSUME TypeOK, NEW j \in Jobs,
         BackoffElapses(j) \/ LeaseExpires(j)
  PROVE  TypeOK'
<1>1. CASE BackoffElapses(j)
  <2>1. job' \in [Jobs -> Job]
    BY <1>1 DEF BackoffElapses, TypeOK, Job, Status, Lease, File
  <2> QED  BY <1>1, <2>1 DEF TypeOK, BackoffElapses
<1>2. CASE LeaseExpires(j)
  <2>1. job' \in [Jobs -> Job]
    BY <1>2 DEF LeaseExpires, TypeOK, Job, Status, Lease, File
  <2> QED  BY <1>2, <2>1 DEF TypeOK, LeaseExpires
<1> QED  BY <1>1, <1>2

LEMMA TypeReclaim ==
  ASSUME TypeOK, NEW w \in Workers, Reclaim(w)
  PROVE  TypeOK'
<1>1. CASE ReclaimRead(w)
  <2> DEFINE rows == {[id |-> j, attempts |-> job[j].attempts] :
                        j \in {k \in Jobs : /\ job[k].status = "processing"
                                            /\ job[k].lease = "expired"}}
  <2>1. rows \in SUBSET StaleRow
    BY DEF TypeOK, StaleRow, Job
  <2>2. worker' = [worker EXCEPT ![w] = [worker[w] EXCEPT !.pc = "reclaim", !.stale = rows]]
    BY <1>1 DEF ReclaimRead, TypeOK, Worker
  <2> HIDE DEF rows
  <2>3. [worker[w] EXCEPT !.pc = "reclaim", !.stale = rows] \in Worker
    BY <2>1 DEF TypeOK, Worker
  <2> QED  BY <1>1, <2>2, <2>3 DEF TypeOK, ReclaimRead, queueVars
<1>2. ASSUME NEW row \in worker[w].stale, ReclaimSave(w, row)
      PROVE  TypeOK'
  <2>1. row \in StaleRow
    BY DEF TypeOK, Worker
  <2>2. job' \in [Jobs -> Job]
    BY <1>2, <2>1 DEF ReclaimSave, TypeOK, Job, Status, Lease, StaleRow
  <2>3. worker' \in [Workers -> Worker]
    BY <1>2 DEF ReclaimSave, TypeOK, Worker
  <2> QED  BY <1>2, <2>2, <2>3 DEF TypeOK, ReclaimSave
<1>3. CASE ReclaimEnd(w)
  <2>1. worker' \in [Workers -> Worker]
    BY <1>3 DEF ReclaimEnd, TypeOK, Worker
  <2> QED  BY <1>3, <2>1 DEF TypeOK, ReclaimEnd, queueVars
<1> QED  BY <1>1, <1>2, <1>3 DEF Reclaim

LEMMA AdvanceType ==
  ASSUME TypeOK, NEW w \in Workers, NEW j \in Jobs, Advance(w, j)
  PROVE  worker' \in [Workers -> Worker]
<1> DEFINE r == [worker[w] EXCEPT !.pc = "dispatch", !.queue = @ \ {j},
                                  !.source = 0, !.file = 0]
<1>1. worker' = [worker EXCEPT ![w] = r]
  BY DEF Advance, TypeOK, Worker
<1>2. worker[w] \in Worker
  BY DEF TypeOK
<1>3. r \in Worker
  BY <1>2 DEF Worker, File
<1> HIDE DEF r
<1> QED  BY <1>1, <1>3 DEF TypeOK

LEMMA TypePass ==
  ASSUME TypeOK, NEW w \in Workers, ListPending(w) \/ EndPass(w) \/ Crash(w)
  PROVE  TypeOK'
<1>1. CASE ListPending(w)
  <2> DEFINE rows == FirstRows({j \in Jobs : Runnable(j)})
  <2>1. rows \in SUBSET Jobs
    BY DEF FirstRows
  <2>2. worker' = [worker EXCEPT ![w] = [worker[w] EXCEPT !.pc = "dispatch", !.queue = rows]]
    BY <1>1 DEF ListPending, TypeOK, Worker
  <2> HIDE DEF rows
  <2>3. [worker[w] EXCEPT !.pc = "dispatch", !.queue = rows] \in Worker
    BY <2>1 DEF TypeOK, Worker
  <2> QED  BY <1>1, <2>2, <2>3 DEF TypeOK, ListPending, queueVars
<1>2. CASE EndPass(w)
  <2>1. worker' \in [Workers -> Worker]
    BY <1>2 DEF EndPass, TypeOK, Worker, Idle, File
  <2> QED  BY <1>2, <2>1 DEF TypeOK, EndPass, queueVars
<1>3. CASE Crash(w)
  <2>1. worker' \in [Workers -> Worker]
    BY <1>3 DEF Crash, TypeOK, Worker, Idle, File
  <2>2. crashes' \in 0..MaxCrashes
    BY <1>3, ConstantsAssumption DEF Crash, TypeOK
  <2> QED  BY <1>3, <2>1, <2>2 DEF TypeOK, Crash
<1> QED  BY <1>1, <1>2, <1>3

LEMMA TypeJobStep ==
  ASSUME TypeOK, NEW w \in Workers, NEW j \in Jobs,
         Claim(w, j) \/ SkipClaim(w, j) \/ Finalize(w, j) \/ FollowUp(w, j)
  PROVE  TypeOK'
<1>1. CASE Claim(w, j)
  <2>1. job' \in [Jobs -> Job]
    BY <1>1 DEF Claim, TypeOK, Job, Status, Lease
  <2> DEFINE r == [worker[w] EXCEPT !.pc = "parse", !.source = job[j].source,
                                    !.file = doc[j].file]
  <2>2. worker' = [worker EXCEPT ![w] = r]
    BY <1>1 DEF Claim, TypeOK, Worker
  <2>3. job[j].source \in File /\ doc[j].file \in File
    BY DEF TypeOK, Job, Doc
  <2>4. r \in Worker
    BY <2>3 DEF TypeOK, Worker
  <2> HIDE DEF r
  <2> QED  BY <1>1, <2>1, <2>2, <2>4 DEF TypeOK, Claim
<1>2. CASE SkipClaim(w, j)
  BY <1>2, AdvanceType DEF SkipClaim, TypeOK, queueVars
<1>3. CASE FinalizeSkipped(w, j)
  BY <1>3, AdvanceType DEF FinalizeSkipped, TypeOK, queueVars
<1>4. CASE FinalizeRaises(w, j)
  <2>1. worker' \in [Workers -> Worker]
    BY <1>4 DEF FinalizeRaises, TypeOK, Worker, Idle, File
  <2> QED  BY <1>4, <2>1 DEF TypeOK, FinalizeRaises, queueVars
<1>5. CASE FinalizeFailedDocument(w, j)
  <2>1. job' \in [Jobs -> Job]
    <3> DEFINE st == IF job[j].attempts < MaxAttempts THEN "pending" ELSE "failed"
    <3> DEFINE due == job[j].attempts >= MaxAttempts
    <3> DEFINE r == [job[j] EXCEPT !.status = st, !.due = due, !.lease = "none"]
    <3>1. r \in Job
      <4>1. job[j] \in Job /\ st \in Status /\ due \in BOOLEAN
        BY DEF TypeOK, Status
      <4> HIDE DEF st, due
      <4> QED  BY <4>1 DEF Job, Lease
    <3>2. job' = [job EXCEPT ![j] = r]
      BY <1>5 DEF FinalizeFailedDocument, TypeOK, Job
    <3> HIDE DEF r
    <3> QED  BY <3>1, <3>2 DEF TypeOK
  <2>2. doc' \in [Jobs -> Doc]
    BY <1>5 DEF FinalizeFailedDocument, TypeOK, Doc, OcrStatus
  <2> QED  BY <1>5, <2>1, <2>2, AdvanceType DEF TypeOK, FinalizeFailedDocument
<1>6. CASE FinalizeSuccessfulDocument(w, j)
  <2>1. job' \in [Jobs -> Job]
    BY <1>6 DEF FinalizeSuccessfulDocument, TypeOK, Job, Status, Lease
  <2>2. worker[w].file \in File
    BY DEF TypeOK, Worker
  <2>3. doc' \in [Jobs -> Doc]
    <3> DEFINE p == [what |-> "pii", of |-> worker[w].file]
    <3> DEFINE r == [doc[j] EXCEPT !.ocr = "success", !.awaiting = TRUE, !.parsed = p]
    <3>1. r \in Doc
      <4>1. doc[j] \in Doc /\ p \in Parsed
        BY <2>2 DEF TypeOK, Parsed, File
      <4> HIDE DEF p
      <4> QED  BY <4>1 DEF Doc, OcrStatus
    <3>2. doc' = [doc EXCEPT ![j] = r]
      BY <1>6 DEF FinalizeSuccessfulDocument, TypeOK, Doc
    <3> HIDE DEF r
    <3> QED  BY <3>1, <3>2 DEF TypeOK
  <2> QED  BY <1>6, <2>1, <2>3, AdvanceType DEF TypeOK, FinalizeSuccessfulDocument
<1>7. CASE FinalizeFailedAuto(w, j)
  <2>1. worker[w].source \in File
    BY DEF TypeOK, Worker
  <2>2. job' \in [Jobs -> Job]
    BY <1>7, <2>1 DEF FinalizeFailedAuto, TypeOK, Job, Status
  <2>3. doc' \in [Jobs -> Doc]
    BY <1>7 DEF FinalizeFailedAuto, TypeOK, Doc, OcrStatus
  <2> QED  BY <1>7, <2>2, <2>3, AdvanceType DEF TypeOK, FinalizeFailedAuto
<1>8. CASE FinalizeSuccessfulAuto(w, j)
  <2>1. worker[w].source \in File /\ worker[w].file \in File
    BY DEF TypeOK, Worker
  <2>2. job' \in [Jobs -> Job]
    BY <1>8, <2>1 DEF FinalizeSuccessfulAuto, TypeOK, Job, Status
  <2>3. doc' \in [Jobs -> Doc]
    <3> DEFINE p == [what |-> "auto", of |-> worker[w].file]
    <3> DEFINE r == [doc[j] EXCEPT !.ocr = "success", !.parsed = p]
    <3>1. r \in Doc
      <4>1. doc[j] \in Doc /\ p \in Parsed
        BY <2>1 DEF TypeOK, Parsed, File
      <4> HIDE DEF p
      <4> QED  BY <4>1 DEF Doc, OcrStatus
    <3>2. doc' = [doc EXCEPT ![j] = r]
      BY <1>8 DEF FinalizeSuccessfulAuto, TypeOK, Doc
    <3> HIDE DEF r
    <3> QED  BY <3>1, <3>2 DEF TypeOK
  <2>4. worker' \in [Workers -> Worker]
    BY <1>8 DEF FinalizeSuccessfulAuto, TypeOK, Worker
  <2> QED  BY <1>8, <2>2, <2>3, <2>4 DEF TypeOK, FinalizeSuccessfulAuto
<1>9. CASE FollowUp(w, j)
  BY <1>9, AdvanceType DEF TypeOK, FollowUp
<1> QED  BY <1>1, <1>2, <1>3, <1>4, <1>5, <1>6, <1>7, <1>8, <1>9 DEF Finalize

LEMMA TypeStaffOne ==
  ASSUME TypeOK, NEW j \in Jobs,
         ConfirmWezwanie(j) \/ ToggleOn(j) \/ ToggleOff(j)
           \/ RejectDocument(j) \/ DeleteDocument(j) \/ RestoreRead(j)
  PROVE  TypeOK'
<1>1. CASE ConfirmWezwanie(j)
  <2>1. doc' \in [Jobs -> Doc]
    <3> DEFINE p == [what |-> "confirmed", of |-> 0]
    <3> DEFINE r == [doc[j] EXCEPT !.ocr = "success", !.awaiting = FALSE, !.parsed = p]
    <3>1. r \in Doc
      <4>1. doc[j] \in Doc /\ p \in Parsed
        BY DEF TypeOK, Parsed, File
      <4> HIDE DEF p
      <4> QED  BY <4>1 DEF Doc, OcrStatus
    <3>2. doc' = [doc EXCEPT ![j] = r]
      BY <1>1 DEF ConfirmWezwanie, TypeOK, Doc
    <3> HIDE DEF r
    <3> QED  BY <3>1, <3>2 DEF TypeOK
  <2> QED  BY <1>1, <2>1 DEF TypeOK, ConfirmWezwanie, queueVars
<1>2. CASE ToggleOn(j)
  <2>1. doc' \in [Jobs -> Doc]
    <3> DEFINE r == [doc[j] EXCEPT !.verified = TRUE, !.awaiting = FALSE,
                                 !.rejected = FALSE]
    <3>1. r \in Doc
      BY DEF TypeOK, Doc
    <3>2. doc' = [doc EXCEPT ![j] = r]
      BY <1>2 DEF ToggleOn, TypeOK, Doc
    <3> HIDE DEF r
    <3> QED  BY <3>1, <3>2 DEF TypeOK
  <2> QED  BY <1>2, <2>1 DEF TypeOK, ToggleOn, queueVars
<1>3. CASE ToggleOff(j)
  <2>1. doc' \in [Jobs -> Doc]
    BY <1>3 DEF ToggleOff, TypeOK, Doc, OcrStatus, File, Parsed
  <2> QED  BY <1>3, <2>1 DEF TypeOK, ToggleOff, queueVars
<1>4. CASE RejectDocument(j)
  <2>1. doc' \in [Jobs -> Doc]
    <3> DEFINE r == [doc[j] EXCEPT !.verified = FALSE, !.awaiting = FALSE,
                                 !.rejected = TRUE]
    <3>1. r \in Doc
      BY DEF TypeOK, Doc
    <3>2. doc' = [doc EXCEPT ![j] = r]
      BY <1>4 DEF RejectDocument, TypeOK, Doc
    <3> HIDE DEF r
    <3> QED  BY <3>1, <3>2 DEF TypeOK
  <2> QED  BY <1>4, <2>1 DEF TypeOK, RejectDocument, queueVars
<1>5. CASE DeleteDocument(j)
  <2>1. doc' \in [Jobs -> Doc]
    BY <1>5 DEF DeleteDocument, TypeOK, Doc, OcrStatus, File, Parsed
  <2> QED  BY <1>5, <2>1 DEF TypeOK, DeleteDocument, queueVars
<1>6. CASE RestoreRead(j)
  <2>1. restoring' \in Copy
    BY <1>6 DEF RestoreRead, TypeOK, Copy, Doc
  <2> QED  BY <1>6, <2>1 DEF TypeOK, RestoreRead, queueVars
<1> QED  BY <1>1, <1>2, <1>3, <1>4, <1>5, <1>6

LEMMA TypeStaffMany ==
  ASSUME TypeOK,
         (\E S \in SUBSET Jobs : VerifyAll(S)) \/ RestoreSave \/ ScrubRead \/ ScrubSave
  PROVE  TypeOK'
<1>1. ASSUME NEW S \in SUBSET Jobs, VerifyAll(S)
      PROVE  TypeOK'
  <2>1. doc' \in [Jobs -> Doc]
    BY <1>1 DEF VerifyAll, TypeOK, Doc
  <2> QED  BY <1>1, <2>1 DEF TypeOK, VerifyAll, queueVars
<1>2. CASE RestoreSave
  <2>1. restoring \in Copy
    BY <1>2 DEF RestoreSave, TypeOK
  <2>2. doc' \in [Jobs -> Doc]
    BY <1>2, <2>1 DEF RestoreSave, TypeOK, Doc, Copy, OcrStatus, File
  <2> QED  BY <1>2, <2>2 DEF TypeOK, RestoreSave, queueVars
<1>3. CASE ScrubRead
  <2>1. \A j \in Jobs : doc[j].parsed.of \in File
    BY DEF TypeOK, Doc, Parsed
  <2>2. scrubbing' \in SUBSET [id : Jobs, of : File]
    BY <1>3, <2>1 DEF ScrubRead
  <2> QED  BY <1>3, <2>2 DEF TypeOK, ScrubRead, queueVars
<1>4. CASE ScrubSave
  <2>1. ASSUME NEW j \in Jobs
        PROVE  doc'[j] \in Doc
    <3>1. CASE \E row \in scrubbing : row.id = j
      <4> DEFINE of == (CHOOSE row \in scrubbing : row.id = j).of
      <4>1. of \in File
        BY <3>1 DEF TypeOK
      <4>2. doc'[j] = [doc[j] EXCEPT !.parsed = [what |-> "scrubbed", of |-> of]]
        BY <1>4, <3>1 DEF ScrubSave
      <4> HIDE DEF of
      <4> QED  BY <4>1, <4>2 DEF TypeOK, Doc, Parsed
    <3>2. CASE ~\E row \in scrubbing : row.id = j
      BY <1>4, <3>2 DEF ScrubSave, TypeOK
    <3> QED  BY <3>1, <3>2
  <2>2. doc' = [j \in Jobs |-> doc'[j]]
    BY <1>4 DEF ScrubSave
  <2>3. doc' \in [Jobs -> Doc]
    BY <2>1, <2>2
  <2> QED  BY <1>4, <2>3 DEF TypeOK, ScrubSave, queueVars
<1> QED  BY <1>1, <1>2, <1>3, <1>4

LEMMA TypeStep == TypeOK /\ [Next]_vars => TypeOK'
<1> SUFFICES ASSUME TypeOK, [Next]_vars PROVE TypeOK'
  OBVIOUS
<1>1. CASE Upload
  BY <1>1, TypeUpload DEF Upload
<1>2. CASE Time
  BY <1>2, TypeTime DEF Time
<1>3. ASSUME NEW w \in Workers, PassStep(w) \/ Crash(w)
      PROVE  TypeOK'
  BY <1>3, TypeReclaim, TypePass, TypeJobStep DEF PassStep
<1>4. CASE Staff
  BY <1>4, TypeStaffOne, TypeStaffMany DEF Staff
<1>5. CASE UNCHANGED vars
  BY <1>5 DEF vars, TypeOK
<1> QED  BY <1>1, <1>2, <1>3, <1>4, <1>5 DEF Next

(* Every reachable state is well typed: no step of a pass, of staff or of a  *)
(* maintenance command writes a value its column cannot hold.               *)
THEOREM TypeCorrect == Spec => []TypeOK
<1> QED  BY TypeInit, TypeStep, PTL DEF Spec

-----------------------------------------------------------------------------
(* Exclusive leases.  ExclusiveLease is not inductive: a claim may follow a  *)
(* stale row or a late finaliser that put the job back to pending.  Both     *)
(* need a lease that ran out, so the invariant adds that, until then, no     *)
(* process holds a row of the job to reclaim, and its lease is not expired.  *)

Held(j) ==
  /\ job[j].lease # "expired"
  /\ job[j].status = "pending" => job[j].attempts < MaxAttempts

Unread(j) == \A w \in Workers : \A row \in worker[w].stale : row.id # j

Sole(j) ==
  \A w \in Workers : Parsing(w, j) =>
    /\ job[j].status = "processing"
    /\ \A v \in Workers : Parsing(v, j) => v = w

LeaseInv == \A j \in Jobs : ~overrun[j] => Held(j) /\ Unread(j) /\ Sole(j)

LEMMA LeaseInit == Init => LeaseInv
BY ConstantsAssumption DEF Init, LeaseInv, Held, Unread, Sole, Parsing, Idle

LEMMA LeaseUpload ==
  ASSUME TypeOK, LeaseInv, NEW k \in Jobs,
         UploadQueued(k) \/ UploadInlineRead(k) \/ UploadInlineUnread(k)
  PROVE  LeaseInv'
<1> SUFFICES ASSUME NEW j \in Jobs, ~overrun'[j]
             PROVE  Held(j)' /\ Unread(j)' /\ Sole(j)'
  BY DEF LeaseInv
<1>0. overrun' = overrun /\ worker' = worker /\ job[k].status = "none"
  BY DEF UploadQueued, UploadInlineRead, UploadInlineUnread, NextUpload, Uploaded
<1>1. Held(j) /\ Unread(j) /\ Sole(j)
  BY <1>0 DEF LeaseInv
<1>2. CASE j = k
  <2>1. Held(j)'
    <3>1. CASE UploadQueued(k)
      BY <1>2, <3>1, ConstantsAssumption DEF UploadQueued, Held, TypeOK
    <3>2. CASE UploadInlineRead(k)
      BY <1>2, <3>2 DEF UploadInlineRead, Held, TypeOK
    <3>3. CASE UploadInlineUnread(k)
      <4>1. job'[j].lease = "none" /\ job'[j].attempts = 1
        BY <1>2, <3>3 DEF UploadInlineUnread, TypeOK
      <4>2. job'[j].status = "pending" => 1 < MaxAttempts
        BY <1>2, <3>3 DEF UploadInlineUnread, TypeOK
      <4> QED  BY <4>1, <4>2 DEF Held
    <3> QED  BY <3>1, <3>2, <3>3
  <2>2. \A w \in Workers : ~Parsing(w, j)
    BY <1>0, <1>1, <1>2 DEF Sole
  <2> QED  BY <1>0, <1>1, <2>1, <2>2 DEF Unread, Sole, Parsing
<1>3. CASE j # k
  <2>1. job'[j] = job[j]
    BY <1>3 DEF UploadQueued, UploadInlineRead, UploadInlineUnread, TypeOK
  <2> QED  BY <1>0, <1>1, <2>1 DEF Held, Unread, Sole, Parsing
<1> QED  BY <1>2, <1>3

LEMMA LeaseTime ==
  ASSUME TypeOK, LeaseInv, NEW k \in Jobs, BackoffElapses(k) \/ LeaseExpires(k)
  PROVE  LeaseInv'
<1> SUFFICES ASSUME NEW j \in Jobs, ~overrun'[j]
             PROVE  Held(j)' /\ Unread(j)' /\ Sole(j)'
  BY DEF LeaseInv
<1>1. ~overrun[j] /\ worker' = worker
  BY DEF BackoffElapses, LeaseExpires, TypeOK
<1>2. /\ job'[j].status = job[j].status /\ job'[j].attempts = job[j].attempts
      /\ job'[j].lease = job[j].lease
  <2>1. CASE BackoffElapses(k)
    BY <2>1 DEF BackoffElapses, TypeOK, Job
  <2>2. CASE LeaseExpires(k)
    <3>1. j # k
      BY <2>2 DEF LeaseExpires, TypeOK
    <3> QED  BY <2>2, <3>1 DEF LeaseExpires, TypeOK
  <2> QED  BY <2>1, <2>2
<1> QED  BY <1>1, <1>2 DEF LeaseInv, Held, Unread, Sole, Parsing

LEMMA LeaseReclaim ==
  ASSUME TypeOK, LeaseInv, NEW w \in Workers, Reclaim(w)
  PROVE  LeaseInv'
<1> SUFFICES ASSUME NEW j \in Jobs, ~overrun'[j]
             PROVE  Held(j)' /\ Unread(j)' /\ Sole(j)'
  BY DEF LeaseInv
<1>0. overrun' = overrun
  BY DEF Reclaim, ReclaimRead, ReclaimSave, ReclaimEnd, queueVars
<1>1. Held(j) /\ Unread(j) /\ Sole(j)
  BY <1>0 DEF LeaseInv
<1>2. job'[j] = job[j]
  <2>1. ASSUME NEW row \in worker[w].stale, ReclaimSave(w, row)
        PROVE  job'[j] = job[j]
    BY <2>1, <1>1 DEF ReclaimSave, Unread, TypeOK
  <2> QED  BY <2>1 DEF Reclaim, ReclaimRead, ReclaimEnd, queueVars
<1>3. \A v \in Workers : Parsing(v, j)' <=> Parsing(v, j)
  <2> SUFFICES ASSUME NEW v \in Workers PROVE Parsing(v, j)' <=> Parsing(v, j)
    OBVIOUS
  <2>1. v # w => worker'[v] = worker[v]
    BY DEF Reclaim, ReclaimRead, ReclaimSave, ReclaimEnd, TypeOK
  <2>2. worker[w].pc # "parse" /\ worker'[w].pc # "parse"
    <3>1. CASE ReclaimRead(w)
      BY <3>1 DEF ReclaimRead, TypeOK, Worker
    <3>2. ASSUME NEW row \in worker[w].stale, ReclaimSave(w, row)
          PROVE  worker[w].pc # "parse" /\ worker'[w].pc # "parse"
      BY <3>2 DEF ReclaimSave, TypeOK, Worker
    <3>3. CASE ReclaimEnd(w)
      BY <3>3 DEF ReclaimEnd, TypeOK, Worker
    <3> QED  BY <3>1, <3>2, <3>3 DEF Reclaim
  <2> QED  BY <2>1, <2>2 DEF Parsing
<1>4. Unread(j)'
  <2> SUFFICES ASSUME NEW v \in Workers, NEW row \in worker'[v].stale
               PROVE  row.id # j
    BY DEF Unread
  <2>1. CASE ReclaimRead(w)
    BY <2>1, <1>1 DEF ReclaimRead, Unread, Held, TypeOK, Worker
  <2>2. CASE ~ReclaimRead(w)
    <3>1. row \in worker[v].stale
      <4>1. ASSUME NEW r \in worker[w].stale, ReclaimSave(w, r)
            PROVE  worker'[v].stale \subseteq worker[v].stale
        BY <4>1 DEF ReclaimSave, TypeOK, Worker
      <4>2. CASE ReclaimEnd(w)
        BY <4>2 DEF ReclaimEnd, TypeOK, Worker
      <4> QED  BY <2>2, <4>1, <4>2 DEF Reclaim
    <3> QED  BY <3>1, <1>1 DEF Unread
  <2> QED  BY <2>1, <2>2
<1> QED  BY <1>1, <1>2, <1>3, <1>4 DEF Held, Sole

LEMMA LeasePass ==
  ASSUME TypeOK, LeaseInv, NEW w \in Workers, ListPending(w) \/ EndPass(w) \/ Crash(w)
  PROVE  LeaseInv'
<1> SUFFICES ASSUME NEW j \in Jobs, ~overrun'[j]
             PROVE  Held(j)' /\ Unread(j)' /\ Sole(j)'
  BY DEF LeaseInv
<1>1. job' = job /\ overrun' = overrun
  BY DEF ListPending, EndPass, Crash, queueVars
<1>2. \A v \in Workers : v # w => worker'[v] = worker[v]
  BY DEF ListPending, EndPass, Crash, TypeOK
<1>3. worker'[w].pc # "parse" /\ worker'[w].stale \subseteq worker[w].stale
  BY DEF ListPending, EndPass, Crash, TypeOK, Worker, Idle
<1>4. \A v \in Workers : Parsing(v, j)' => Parsing(v, j)
  BY <1>2, <1>3 DEF Parsing
<1> QED  BY <1>1, <1>2, <1>3, <1>4 DEF LeaseInv, Held, Unread, Sole

LEMMA LeaseClaim ==
  ASSUME TypeOK, LeaseInv, NEW w \in Workers, NEW k \in Jobs, Claim(w, k)
  PROVE  LeaseInv'
<1> SUFFICES ASSUME NEW j \in Jobs, ~overrun'[j]
             PROVE  Held(j)' /\ Unread(j)' /\ Sole(j)'
  BY DEF LeaseInv
<1>1. overrun' = overrun /\ \A v \in Workers : v # w => worker'[v] = worker[v]
  BY DEF Claim, TypeOK
<1>2. Held(j) /\ Unread(j) /\ Sole(j)
  BY <1>1 DEF LeaseInv
<1>3. /\ worker'[w].queue = worker[w].queue /\ worker'[w].stale = worker[w].stale
      /\ worker[w].pc = "dispatch"
  BY DEF Claim, TypeOK, Worker
<1>4. Unread(j)'
  BY <1>1, <1>2, <1>3 DEF Unread
<1>5. CASE j = k
  <2>1. job[j].status = "pending" /\ job'[j].status = "processing" /\ job'[j].lease = "live"
    BY <1>5 DEF Claim, TypeOK, Job
  <2>2. \A v \in Workers : ~Parsing(v, j)
    BY <1>2, <2>1 DEF Sole
  <2>3. \A v \in Workers : Parsing(v, j)' => v = w
    BY <1>1, <2>2 DEF Parsing
  <2> QED  BY <1>4, <2>1, <2>3 DEF Held, Sole
<1>6. CASE j # k
  <2>1. job'[j] = job[j]
    BY <1>6 DEF Claim, TypeOK
  <2>2. ~Parsing(w, j)'
    <3>1. k \in worker[w].queue /\ \A i \in worker[w].queue : k <= i
      BY DEF Claim, IsFirst
    <3> QED  BY <1>3, <1>6, <3>1, ConstantsAssumption DEF Parsing, IsFirst
  <2>3. \A v \in Workers : Parsing(v, j)' => Parsing(v, j)
    BY <1>1, <2>2 DEF Parsing
  <2> QED  BY <1>2, <1>4, <2>1, <2>3 DEF Held, Sole
<1> QED  BY <1>5, <1>6

(* What every way of finishing with a job has in common: the process leaves  *)
(* it, nobody else moves, and only the row of that job may change.           *)
LEMMA LeaseLeave ==
  ASSUME TypeOK, LeaseInv, NEW w \in Workers, NEW k \in Jobs,
         overrun' = overrun,
         \A v \in Workers : v # w => worker'[v] = worker[v],
         worker'[w].pc # "parse", worker'[w].stale \subseteq worker[w].stale,
         \A j \in Jobs : job'[j] # job[j] => j = k /\ Parsing(w, j),
         ~overrun[k] => Held(k)'
  PROVE  LeaseInv'
<1> SUFFICES ASSUME NEW j \in Jobs, ~overrun'[j]
             PROVE  Held(j)' /\ Unread(j)' /\ Sole(j)'
  BY DEF LeaseInv
<1>1. Held(j) /\ Unread(j) /\ Sole(j)
  BY DEF LeaseInv
<1>2. Unread(j)'
  BY <1>1 DEF Unread
<1>3. \A v \in Workers : Parsing(v, j)' => Parsing(v, j) /\ v # w
  BY DEF Parsing
<1>4. CASE job'[j] = job[j]
  BY <1>1, <1>2, <1>3, <1>4 DEF Held, Sole
<1>5. CASE job'[j] # job[j]
  <2>1. \A v \in Workers : ~Parsing(v, j)'
    BY <1>1, <1>3, <1>5 DEF Sole
  <2> QED  BY <1>2, <1>5, <2>1 DEF Sole
<1> QED  BY <1>4, <1>5

(* A step of a pass on job k changes the row of k only, and only while it    *)
(* parses it, but for the claim.                                             *)
LEMMA OwnRowOnly ==
  ASSUME TypeOK, NEW w \in Workers, NEW k \in Jobs,
         SkipClaim(w, k) \/ Finalize(w, k) \/ FollowUp(w, k)
  PROVE  \A j \in Jobs : job'[j] # job[j] => j = k /\ Parsing(w, j)
BY DEF SkipClaim, FollowUp, Finalize, FinalizeSkipped, FinalizeRaises,
       FinalizeFailedDocument, FinalizeSuccessfulDocument, FinalizeFailedAuto,
       FinalizeSuccessfulAuto, queueVars, TypeOK

LEMMA LeaseJobStep ==
  ASSUME TypeOK, LeaseInv, NEW w \in Workers, NEW k \in Jobs,
         SkipClaim(w, k) \/ Finalize(w, k) \/ FollowUp(w, k)
  PROVE  LeaseInv'
<1>1. overrun' = overrun /\ \A v \in Workers : v # w => worker'[v] = worker[v]
  BY DEF SkipClaim, FollowUp, Finalize, FinalizeSkipped, FinalizeRaises,
         FinalizeFailedDocument, FinalizeSuccessfulDocument, FinalizeFailedAuto,
         FinalizeSuccessfulAuto, Advance, queueVars, TypeOK
<1>2. worker'[w].pc # "parse"
  BY DEF SkipClaim, FollowUp, Finalize, FinalizeSkipped, FinalizeRaises,
         FinalizeFailedDocument, FinalizeSuccessfulDocument, FinalizeFailedAuto,
         FinalizeSuccessfulAuto, Advance, TypeOK, Worker, Idle
<1>3. worker'[w].stale \subseteq worker[w].stale
  BY DEF SkipClaim, FollowUp, Finalize, FinalizeSkipped, FinalizeRaises,
         FinalizeFailedDocument, FinalizeSuccessfulDocument, FinalizeFailedAuto,
         FinalizeSuccessfulAuto, Advance, TypeOK, Worker, Idle
<1>4. \A j \in Jobs : job'[j] # job[j] => j = k /\ Parsing(w, j)
  BY OwnRowOnly
<1>5. ~overrun[k] => Held(k)'
  <2> SUFFICES ASSUME ~overrun[k] PROVE Held(k)'
    OBVIOUS
  <2>1. Held(k)
    BY DEF LeaseInv
  <2>2. CASE job' = job
    BY <2>1, <2>2 DEF Held
  <2>3. CASE FinalizeFailedDocument(w, k)
    BY <2>3 DEF FinalizeFailedDocument, Held, TypeOK, Job
  <2>4. CASE FinalizeSuccessfulDocument(w, k)
    BY <2>4 DEF FinalizeSuccessfulDocument, Held, TypeOK, Job
  <2>5. CASE FinalizeFailedAuto(w, k) \/ FinalizeSuccessfulAuto(w, k)
    <3>1. job[k] \in Job
      BY DEF TypeOK
    <3>2. CASE FinalizeFailedAuto(w, k)
      <4>1. job'[k] = [job[k] EXCEPT !.status = "failed", !.source = worker[w].source]
        BY <3>2 DEF FinalizeFailedAuto, TypeOK, Job
      <4> QED  BY <2>1, <3>1, <4>1 DEF Held, Job
    <3>3. CASE FinalizeSuccessfulAuto(w, k)
      <4>1. job'[k] = [job[k] EXCEPT !.status = "completed", !.source = worker[w].source]
        BY <3>3 DEF FinalizeSuccessfulAuto, TypeOK, Job
      <4> QED  BY <2>1, <3>1, <4>1 DEF Held, Job
    <3> QED  BY <2>5, <3>2, <3>3
  <2> QED  BY <2>2, <2>3, <2>4, <2>5
           DEF SkipClaim, FollowUp, Finalize, FinalizeSkipped, FinalizeRaises, queueVars
<1> QED  BY <1>1, <1>2, <1>3, <1>4, <1>5, LeaseLeave

LEMMA LeaseStaff == ASSUME LeaseInv, Staff PROVE LeaseInv'
<1>1. UNCHANGED <<job, worker, overrun>>
  BY DEF Staff, ConfirmWezwanie, ToggleOn, ToggleOff, RejectDocument, DeleteDocument,
         RestoreRead, VerifyAll, RestoreSave, ScrubRead, ScrubSave, queueVars
<1> QED  BY <1>1 DEF LeaseInv, Held, Unread, Sole, Parsing

LEMMA LeaseStep == TypeOK /\ LeaseInv /\ [Next]_vars => LeaseInv'
<1> SUFFICES ASSUME TypeOK, LeaseInv, [Next]_vars PROVE LeaseInv'
  OBVIOUS
<1>1. CASE Upload
  BY <1>1, LeaseUpload DEF Upload
<1>2. CASE Time
  BY <1>2, LeaseTime DEF Time
<1>3. ASSUME NEW w \in Workers, PassStep(w) \/ Crash(w)
      PROVE  LeaseInv'
  BY <1>3, LeaseReclaim, LeasePass, LeaseClaim, LeaseJobStep DEF PassStep
<1>4. CASE Staff
  BY <1>4, LeaseStaff
<1>5. CASE UNCHANGED vars
  BY <1>5 DEF vars, LeaseInv, Held, Unread, Sole, Parsing
<1> QED  BY <1>1, <1>2, <1>3, <1>4, <1>5 DEF Next

LEMMA LeaseInvariant == Spec => [](TypeOK /\ LeaseInv)
<1> QED  BY TypeInit, TypeStep, LeaseInit, LeaseStep, PTL DEF Spec

(* Until one of its leases runs out, a job is parsed by at most one process, *)
(* which finds it still processing: the claim's status check under the row   *)
(* lock is enough, however many processes work from stale lists.             *)
THEOREM LeaseIsExclusive == Spec => []ExclusiveLease
<1>1. LeaseInv => ExclusiveLease
  BY DEF LeaseInv, Sole, ExclusiveLease
<1> QED  BY <1>1, LeaseInvariant, PTL

(* Until a lease runs out, a pending job has attempts left, so a later pass  *)
(* will select it.                                                           *)
THEOREM PendingIsSelectable == Spec => []PendingHasAttempts
<1>1. LeaseInv => PendingHasAttempts
  BY DEF LeaseInv, Held, PendingHasAttempts
<1> QED  BY <1>1, LeaseInvariant, PTL

(* Until a lease runs out, a finished job stays finished: a reclaim holds no *)
(* row of it, a claim wants it pending, and no process is parsing it.        *)
THEOREM FinishedStaysFinished == Spec => FinishedIsFinal
<1> DEFINE Final(j) == ~overrun[j] /\ job[j].status \in Terminal
                         => job'[j].status = job[j].status
<1>1. ASSUME TypeOK, LeaseInv, Next, NEW j \in Jobs, ~overrun[j], job[j].status \in Terminal
      PROVE  job'[j].status = job[j].status
  <2>1. Unread(j) /\ \A w \in Workers : ~Parsing(w, j)
    BY <1>1 DEF LeaseInv, Sole, Terminal
  <2>2. CASE Upload
    BY <2>2, <1>1 DEF Upload, UploadQueued, UploadInlineRead, UploadInlineUnread,
                      NextUpload, Uploaded, Terminal, TypeOK
  <2>3. ASSUME NEW k \in Jobs, BackoffElapses(k) \/ LeaseExpires(k)
        PROVE  job'[j].status = job[j].status
    <3>1. CASE BackoffElapses(k)
      BY <1>1, <3>1 DEF BackoffElapses, TypeOK, Job
    <3>2. CASE LeaseExpires(k)
      BY <1>1, <3>2 DEF LeaseExpires, TypeOK, Job, Terminal
    <3> QED  BY <2>3, <3>1, <3>2
  <2>4. ASSUME NEW w \in Workers, NEW row \in worker[w].stale, ReclaimSave(w, row)
        PROVE  job'[j] = job[j]
    BY <2>1, <2>4, <1>1 DEF Unread, ReclaimSave, TypeOK
  <2>5. ASSUME NEW w \in Workers, NEW k \in Jobs, Claim(w, k)
        PROVE  job'[j] = job[j]
    BY <2>5, <1>1 DEF Claim, Terminal, TypeOK
  <2>6. ASSUME NEW w \in Workers, NEW k \in Jobs,
               SkipClaim(w, k) \/ Finalize(w, k) \/ FollowUp(w, k)
        PROVE  job'[j] = job[j]
    BY <2>1, <2>6, <1>1, OwnRowOnly
  <2>7. ASSUME NEW w \in Workers,
               ReclaimRead(w) \/ ReclaimEnd(w) \/ ListPending(w) \/ EndPass(w) \/ Crash(w)
        PROVE  job'[j] = job[j]
    BY <2>7 DEF ReclaimRead, ReclaimEnd, ListPending, EndPass, Crash, queueVars
  <2>8. CASE Staff
    BY <2>8 DEF Staff, ConfirmWezwanie, ToggleOn, ToggleOff, RejectDocument, DeleteDocument,
                RestoreRead, VerifyAll, RestoreSave, ScrubRead, ScrubSave, queueVars
  <2> QED  BY <1>1, <2>2, <2>3, <2>4, <2>5, <2>6, <2>7, <2>8
           DEF Next, PassStep, Reclaim, Time
<1>2. TypeOK /\ LeaseInv /\ [Next]_vars => [\A j \in Jobs : Final(j)]_vars
  BY <1>1
<1>3. FinishedIsFinal <=> [][\A j \in Jobs : Final(j)]_vars
  BY DEF FinishedIsFinal
<1> HIDE DEF Final
<1> QED  BY <1>2, <1>3, LeaseInvariant, PTL DEF Spec
=============================================================================
